---------------------------- MODULE Spec2Model ----------------------------
(***************************************************************************)
(* binfmt: the binfmt_misc registration manager of cmd/binfmt/main.go.     *)
(*                                                                         *)
(* The model is the program's run() as a step machine working on the       *)
(* kernel's binfmt_misc pseudo-filesystem: the mount state of the mount    *)
(* point and the registered entries.  Strings are sequences of one-         *)
(* character strings, so that splitting, suffix tests, glob matching and   *)
(* the directory order are computed as the code computes them.             *)
(***************************************************************************)
EXTENDS Naturals, Sequences, FiniteSets, TLC

VARIABLES
    fsState,          \* the mount point: "absent", "unmounted", "mounted", ...
    binaries,         \* the paths of the executable files on the disk
    procs,            \* concurrent install calls of other processes
    entries,          \* the kernel's registered entries: name -> entry
    pc,               \* position of the process in main/run
    flVersion,        \* flag -version
    toUninstall,      \* flag -uninstall
    toInstall,        \* flag -install
    env,              \* the environment variables the program reads
    uninstallTargets, \* the range expression of run's uninstall loop
    installArchs,     \* run's installArchs
    idx,              \* position in the loop being executed
    mountedByUs,      \* the deferred syscall.Unmount is registered
    log,              \* the effects and outcomes of this run, in order
    result,           \* what run() returned
    start,            \* history: the mount state and entries at run start
    prev              \* history: what the previous run installed

vars == <<fsState, binaries, procs, entries, pc, flVersion, toUninstall, toInstall, env,
          uninstallTargets, installArchs, idx, mountedByUs, log, result,
          start, prev>>

-----------------------------------------------------------------------------
(* Strings *)

\* The characters the model's strings use, in byte order.
Alphabet ==
    <<"*", "-", ".", "/", "0", "1", "2", "3", "4", "5", "6", "7", "8", "9",
      ":", "?", "E", "F", "I", "L", "M", "P", "S", "W", "[", "\\", "_",
      "a", "b", "c", "d", "e", "f", "g", "h", "i", "k", "l", "m", "n", "o",
      "p", "q", "r", "s", "t", "u", "v", "x", "z">>

CharOrd == [c \in {Alphabet[i] : i \in 1..Len(Alphabet)} |->
                CHOOSE i \in 1..Len(Alphabet) : Alphabet[i] = c]

\* a < b in the byte-wise lexicographic order (the order of os.ReadDir).
RECURSIVE StrLess(_, _)
StrLess(a, b) ==
    IF b = <<>> THEN FALSE
    ELSE IF a = <<>> THEN TRUE
    ELSE IF Head(a) = Head(b) THEN StrLess(Tail(a), Tail(b))
    ELSE CharOrd[Head(a)] < CharOrd[Head(b)]

HasPrefix(s, p) == Len(p) <= Len(s) /\ SubSeq(s, 1, Len(p)) = p

HasSuffix(s, p) ==
    Len(p) <= Len(s) /\ SubSeq(s, Len(s) - Len(p) + 1, Len(s)) = p

TrimPrefix(s, p) == IF HasPrefix(s, p) THEN SubSeq(s, Len(p) + 1, Len(s)) ELSE s

ContainsRune(s, c) == \E i \in 1..Len(s) : s[i] = c

\* strings.Split(s, sep) for a one-character separator.
RECURSIVE IndexFrom(_, _, _)
IndexFrom(s, c, i) ==
    IF i > Len(s) THEN 0 ELSE IF s[i] = c THEN i ELSE IndexFrom(s, c, i + 1)

RECURSIVE Split(_, _)
Split(s, sep) ==
    LET i == IndexFrom(s, sep, 1)
    IN  IF i = 0 THEN <<s>>
        ELSE <<SubSeq(s, 1, i - 1)>> \o Split(SubSeq(s, i + 1, Len(s)), sep)

\* The elements of a list of strings joined with a separator character.
RECURSIVE Join(_, _)
Join(list, sep) ==
    IF list = <<>> THEN <<>>
    ELSE IF Len(list) = 1 THEN list[1]
    ELSE list[1] \o <<sep>> \o Join(Tail(list), sep)

\* The strings of a finite set as a sequence in directory order.
RECURSIVE SortNames(_)
SortNames(S) ==
    IF S = {} THEN <<>>
    ELSE LET m == CHOOSE x \in S : \A y \in S \ {x} : StrLess(x, y)
         IN  <<m>> \o SortNames(S \ {m})

Range(f) == {f[i] : i \in DOMAIN f}

\* String constants.
sRegister   == <<"r", "e", "g", "i", "s", "t", "e", "r">>
sStatus     == <<"s", "t", "a", "t", "u", "s">>
sWSLInterop == <<"W", "S", "L", "I", "n", "t", "e", "r", "o", "p">>
sEnabled    == <<"e", "n", "a", "b", "l", "e", "d">>
sDisabled   == <<"d", "i", "s", "a", "b", "l", "e", "d">>
sQemuDash   == <<"q", "e", "m", "u", "-">>
sMinusOne   == <<"-", "1">>
sUsrBin     == <<"/", "u", "s", "r", "/", "b", "i", "n">>
sMount == <<"/", "p", "r", "o", "c", "/", "s", "y", "s", "/", "f", "s", "/",
            "b", "i", "n", "f", "m", "t", "_", "m", "i", "s", "c">>
sAll        == <<"a", "l", "l">>
sArm64      == <<"a", "r", "m", "6", "4">>
sArm        == <<"a", "r", "m">>
sAmd64      == <<"a", "m", "d", "6", "4">>
sMips       == <<"m", "i", "p", "s">>
sLinux      == <<"l", "i", "n", "u", "x">>
sAarch64    == <<"a", "a", "r", "c", "h", "6", "4">>
sX86_64     == <<"x", "8", "6", "_", "6", "4">>
sBuildkit   == <<"b", "u", "i", "l", "d", "k", "i", "t", "-">>
sDotDot     == <<".", ".", "/">>
sQemuStar   == <<"q", "e", "m", "u", "-", "*">>

-----------------------------------------------------------------------------
(* The signature table (configs) and the platform parser *)

NoName == <<>>

x00 == "\\x00"
x01 == "\\x01"
x02 == "\\x02"
xfe == "\\xfe"
xff == "\\xff"

\* The first sixteen bytes of an ELF header's magic text, and the masks.
ElfIdent(class, data) ==
    <<"\\x7f", "E", "L", "F", class, data, x01, x00,
      x00, x00, x00, x00, x00, x00, x00, x00>>
MaskIdent   == <<xff, xff, xff, xff, xff, xff, xff, x00,
                 xff, xff, xff, xff, xff, xff, xff, xff>>
MaskIdentFE == <<xff, xff, xff, xff, xff, xfe, xfe, x00,
                 xff, xff, xff, xff, xff, xff, xff, xff>>
MaskLoong   == <<xff, xff, xff, xff, xff, xff, xff, "\\xfc",
                 x00, xff, xff, xff, xff, xff, xff, xff>>
MaskMips    == <<xff, xff, xff, xff, xff, xff, xff, x00,
                 x00, xff, xff, xff, xff, xff, xff, xff>>

Config(binary, magic, mask) == [binary |-> binary, magic |-> magic, mask |-> mask]

\* Mutant of configs: the mask of arm64 leaves the machine bytes out.
configs_machineMasked ==
    (sAmd64 :> Config(sQemuDash \o sX86_64,
                      ElfIdent(x02, x01) \o <<x02, x00, "\\x3e", x00>>,
                      MaskIdentFE \o <<xfe, xff, xff, xff>>))
 @@ (sArm64 :> Config(sQemuDash \o sAarch64,
                      ElfIdent(x02, x01) \o <<x02, x00, "\\xb7", x00>>,
                      MaskIdent \o <<xfe, xff, x00, x00>>))
 @@ (sArm :> Config(sQemuDash \o sArm,
                    ElfIdent(x01, x01) \o <<x02, x00, "\\x28", x00>>,
                    MaskIdent \o <<xfe, xff, xff, xff>>))

\* configs: architecture name -> {binary, magic, mask}.
configs ==
    (sAmd64 :> Config(sQemuDash \o sX86_64,
                      ElfIdent(x02, x01) \o <<x02, x00, "\\x3e", x00>>,
                      MaskIdentFE \o <<xfe, xff, xff, xff>>))
 @@ (sArm64 :> Config(sQemuDash \o sAarch64,
                      ElfIdent(x02, x01) \o <<x02, x00, "\\xb7", x00>>,
                      MaskIdent \o <<xfe, xff, xff, xff>>))
 @@ (sArm :> Config(sQemuDash \o sArm,
                    ElfIdent(x01, x01) \o <<x02, x00, "\\x28", x00>>,
                    MaskIdent \o <<xfe, xff, xff, xff>>))
 @@ (<<"s", "3", "9", "0", "x">> :>
        Config(sQemuDash \o <<"s", "3", "9", "0", "x">>,
               ElfIdent(x02, x02) \o <<x00, x02, x00, "\\x16">>,
               MaskIdent \o <<xff, xfe, xff, xff>>))
 @@ (<<"p", "p", "c", "6", "4", "l", "e">> :>
        Config(sQemuDash \o <<"p", "p", "c", "6", "4", "l", "e">>,
               ElfIdent(x02, x01) \o <<x02, x00, "\\x15", x00>>,
               MaskIdent \o <<xfe, xff, xff, x00>>))
 @@ (<<"r", "i", "s", "c", "v", "6", "4">> :>
        Config(sQemuDash \o <<"r", "i", "s", "c", "v", "6", "4">>,
               ElfIdent(x02, x01) \o <<x02, x00, "\\xf3", x00>>,
               MaskIdent \o <<xfe, xff, xff, xff>>))
 @@ (<<"3", "8", "6">> :>
        Config(sQemuDash \o <<"i", "3", "8", "6">>,
               ElfIdent(x01, x01) \o <<x02, x00, "\\x03", x00>>,
               MaskIdentFE \o <<xfe, xff, xff, xff>>))
 @@ (<<"m", "i", "p", "s", "6", "4", "l", "e">> :>
        Config(sQemuDash \o <<"m", "i", "p", "s", "6", "4", "e", "l">>,
               ElfIdent(x02, x01) \o <<x02, x00, "\\x08", x00>>,
               MaskMips \o <<xfe, xff, xff, xff>>))
 @@ (<<"m", "i", "p", "s", "6", "4">> :>
        Config(sQemuDash \o <<"m", "i", "p", "s", "6", "4">>,
               ElfIdent(x02, x02) \o <<x00, x02, x00, "\\x08">>,
               MaskMips \o <<xff, xfe, xff, xff>>))
 @@ (<<"l", "o", "o", "n", "g", "6", "4">> :>
        Config(sQemuDash \o <<"l", "o", "o", "n", "g", "a", "r", "c", "h", "6", "4">>,
               ElfIdent(x02, x01) \o <<x02, x00, x02, x01>>,
               MaskLoong \o <<xfe, xff, xff, xff>>))

\* runtime.GOARCH of the host the program runs on.
HostArch == sAmd64

\* The characters of a platform specifier component: [A-Za-z0-9_.-].
SpecChars ==
    {"-", ".", "_", "0", "1", "2", "3", "4", "5", "6", "7", "8", "9",
     "E", "F", "I", "L", "M", "P", "S", "W",
     "a", "b", "c", "d", "e", "f", "g", "h", "i", "k", "l", "m", "n", "o",
     "p", "q", "r", "s", "t", "u", "v", "x", "z"}

KnownOS ==
    {sLinux, <<"w", "i", "n", "d", "o", "w", "s">>, <<"d", "a", "r", "w", "i", "n">>,
     <<"f", "r", "e", "e", "b", "s", "d">>}

KnownArch ==
    DOMAIN configs \cup
    {sMips, <<"m", "i", "p", "s", "l", "e">>, <<"p", "p", "c", "6", "4">>,
     <<"p", "p", "c">>, <<"r", "i", "s", "c", "v">>, <<"s", "3", "9", "0">>,
     <<"w", "a", "s", "m">>}

\* platforms' normalizeArch: the aliases of the architecture names.
normalizeArch(a) ==
    IF a = <<"i", "3", "8", "6">> THEN <<"3", "8", "6">>
    ELSE IF a \in {sX86_64, <<"x", "8", "6", "-", "6", "4">>} THEN sAmd64
    ELSE IF a = sAarch64 THEN sArm64
    ELSE IF a \in {<<"a", "r", "m", "h", "f">>, <<"a", "r", "m", "e", "l">>} THEN sArm
    ELSE a

\* platforms.Parse(specifier): [ok, arch], arch being p.Architecture.
platformsParse(specifier) ==
    LET parts == Split(specifier, "/")
        valid == /\ ~ContainsRune(specifier, "*")
                 /\ Len(parts) <= 3
                 /\ \A i \in 1..Len(parts) :
                        parts[i] # <<>> /\ Range(parts[i]) \subseteq SpecChars
    IN  IF ~valid THEN [ok |-> FALSE, arch |-> NoName]
        ELSE IF Len(parts) = 1
        THEN IF parts[1] \in KnownOS THEN [ok |-> TRUE, arch |-> HostArch]
             ELSE IF normalizeArch(parts[1]) \in KnownArch
             THEN [ok |-> TRUE, arch |-> normalizeArch(parts[1])]
             ELSE [ok |-> FALSE, arch |-> NoName]
        ELSE [ok |-> TRUE, arch |-> normalizeArch(parts[2])]

\* filepath.Match for patterns of literals, '*' and '?'.
RECURSIVE Match(_, _)
Match(pattern, name) ==
    IF pattern = <<>> THEN name = <<>>
    ELSE IF Head(pattern) = "*"
    THEN \E k \in 0..Len(name) :
            /\ \A j \in 1..k : name[j] # "/"
            /\ Match(Tail(pattern), SubSeq(name, k + 1, Len(name)))
    ELSE IF Head(pattern) = "?"
    THEN name # <<>> /\ Head(name) # "/" /\ Match(Tail(pattern), Tail(name))
    ELSE name # <<>> /\ Head(name) = Head(pattern)
         /\ Match(Tail(pattern), Tail(name))

\* filepath's hasMeta: the pattern contains a wildcard character.
hasMeta(pattern) == \E i \in 1..Len(pattern) : pattern[i] \in {"*", "?", "[", "\\"}

-----------------------------------------------------------------------------
(* The kernel's binfmt_misc filesystem *)

Err(kind, arg) == [kind |-> kind, arg |-> arg]
NoErr == Err("OK", <<>>)

Names(ents) == {e.name : e \in ents}
EntryOf(ents, n) == CHOOSE e \in ents : e.name = n

\* The mount point's states: "absent" (no directory), "unmounted", "mounted",
\* and mounted with the process lacking the permission to write, its writes
\* and opens for writing failing with EACCES or EPERM.
IsMounted(fs) == fs \in {"mounted", "mounted:EACCES", "mounted:EPERM"}
WriteErrno(fs) ==
    CASE fs = "mounted:EACCES" -> "EACCES"
      [] fs = "mounted:EPERM" -> "EPERM"
      [] OTHER -> ""

\* os.ReadDir(mount): the names of the mount point's directory, sorted.
ReadDir(fs, ents) ==
    IF fs = "absent" THEN [ok |-> FALSE, names |-> <<>>]
    ELSE IF fs = "unmounted" THEN [ok |-> TRUE, names |-> <<>>]
    ELSE [ok |-> TRUE, names |-> SortNames(Names(ents) \cup {sRegister, sStatus})]

\* The text of an entry's file: its state, then the interpreter.
ReadFile(e) == e.status \o <<"\n">> \o e.interpreter

\* A write to the register file: the kernel parses the record, opens the
\* interpreter when the record has flag F, and creates the entry, enabled,
\* unless an entry of that name exists.
KernelRegister(ents, line, bins) ==
    LET f == Split(line, ":")
    IN  IF Len(f) # 8 \/ f[1] # <<>> \/ f[2] = <<>> \/ ContainsRune(f[2], "/")
           \/ f[3] # <<"M">>
        THEN [errno |-> "EINVAL", entries |-> ents]
        ELSE IF ContainsRune(f[8], "F") /\ f[7] \notin bins
        THEN [errno |-> "ENOENT", entries |-> ents]
        ELSE IF f[2] \in Names(ents) \cup {sRegister, sStatus}
        THEN [errno |-> "EEXIST", entries |-> ents]
        ELSE [errno |-> "",
              entries |-> ents \cup {[name |-> f[2], status |-> sEnabled,
                                      magic |-> f[5], mask |-> f[6],
                                      interpreter |-> f[7], flags |-> f[8]]}]

\* A write of "-1", "0" or "1" to a file of the mount point: "-1" removes an
\* entry (all of them when written to status), "0" and "1" disable and enable
\* it; none of them is a record the register file accepts.
KernelWrite(ents, name, data) ==
    IF name = sRegister THEN [errno |-> "EINVAL", entries |-> ents]
    ELSE IF name = sStatus
    THEN [errno |-> "", entries |-> IF data = sMinusOne THEN {} ELSE ents]
    ELSE IF name \notin Names(ents) THEN [errno |-> "EACCES", entries |-> ents]
    ELSE LET e == EntryOf(ents, name)
         IN  IF data = sMinusOne THEN [errno |-> "", entries |-> ents \ {e}]
             ELSE IF data \in {<<"0">>, <<"1">>}
             THEN [errno |-> "",
                   entries |-> (ents \ {e}) \cup
                       {[e EXCEPT !.status =
                            IF data = <<"1">> THEN sEnabled ELSE sDisabled]}]
             ELSE [errno |-> "EINVAL", entries |-> ents]

\* The kernel's decoding of a magic or mask text: "\xHH" is the byte HH, any
\* other character its own code.
ByteOf ==
    ("\\x00" :> 0) @@ ("\\x01" :> 1) @@ ("\\x02" :> 2) @@ ("\\x03" :> 3)
 @@ ("\\x08" :> 8) @@ ("\\x15" :> 21) @@ ("\\x16" :> 22) @@ ("\\x28" :> 40)
 @@ ("\\x3e" :> 62) @@ ("\\x7f" :> 127) @@ ("\\xb7" :> 183) @@ ("\\xf3" :> 243)
 @@ ("\\xfc" :> 252) @@ ("\\xfe" :> 254) @@ ("\\xff" :> 255)
 @@ ("E" :> 69) @@ ("F" :> 70) @@ ("L" :> 76)
Unescape(text) == [i \in 1..Len(text) |-> ByteOf[text[i]]]

\* os.WriteFile(mount/name, data): the open for writing and the write.
WriteFile(fs, ents, name, data) ==
    IF WriteErrno(fs) # "" THEN [errno |-> WriteErrno(fs), entries |-> ents]
    ELSE KernelWrite(ents, name, data)

\* os.OpenFile(register, O_WRONLY, 0): "" or the errno.
OpenRegister(fs) == IF IsMounted(fs) THEN WriteErrno(fs) ELSE "ENOENT"

-----------------------------------------------------------------------------
(* The program's functions *)

\* Mutant of uninstallSkips: no name is skipped.
uninstallSkips_none(name) == FALSE

\* uninstall: the names the loop skips.
uninstallSkips(name) == name \in {sRegister, sStatus, sWSLInterop}

\* Mutant of uninstallMatches: the name matches the target exactly only.
uninstallMatches_exact(name, arch) == name = arch

\* uninstall: the name matches the target exactly or by its "-target" suffix.
uninstallMatches(name, arch) == name = arch \/ HasSuffix(name, <<"-">> \o arch)

\* Mutant of uninstall: every matching entry is deregistered.
uninstall_allMatches(fs, ents, arch) ==
    LET dir == ReadDir(fs, ents)
        hit == {i \in 1..Len(dir.names) :
                    /\ ~uninstallSkips(dir.names[i])
                    /\ uninstallMatches(dir.names[i], arch)}
    IN  IF ~dir.ok
        THEN [err |-> Err("readdir", <<>>), wrote |-> NoName, entries |-> ents]
        ELSE IF hit = {}
        THEN [err |-> Err("not found", <<>>), wrote |-> NoName, entries |-> ents]
        ELSE LET first == CHOOSE i \in hit : \A j \in hit : i <= j
             IN  IF WriteErrno(fs) # ""
                 THEN [err |-> Err("write", WriteErrno(fs)),
                       wrote |-> dir.names[first], entries |-> ents]
                 ELSE [err |-> NoErr, wrote |-> dir.names[first],
                       entries |-> {e \in ents :
                                      \A i \in hit : dir.names[i] # e.name}]

\* Mutant of uninstall: a target that matches nothing is reported as done.
uninstall_silent(fs, ents, arch) ==
    LET dir == ReadDir(fs, ents)
        hit == {i \in 1..Len(dir.names) :
                    /\ ~uninstallSkips(dir.names[i])
                    /\ uninstallMatches(dir.names[i], arch)}
    IN  IF ~dir.ok
        THEN [err |-> Err("readdir", <<>>), wrote |-> NoName, entries |-> ents]
        ELSE IF hit = {}
        THEN [err |-> NoErr, wrote |-> NoName, entries |-> ents]
        ELSE LET first == CHOOSE i \in hit : \A j \in hit : i <= j
                 w == WriteFile(fs, ents, dir.names[first], sMinusOne)
             IN  [err |-> IF w.errno = "" THEN NoErr ELSE Err("write", w.errno),
                  wrote |-> dir.names[first],
                  entries |-> w.entries]

\* uninstall(arch): [err, wrote, entries], wrote being the file written.
uninstall(fs, ents, arch) ==
    LET dir == ReadDir(fs, ents)
        hit == {i \in 1..Len(dir.names) :
                    /\ ~uninstallSkips(dir.names[i])
                    /\ uninstallMatches(dir.names[i], arch)}
    IN  IF ~dir.ok
        THEN [err |-> Err("readdir", <<>>), wrote |-> NoName, entries |-> ents]
        ELSE IF hit = {}
        THEN [err |-> Err("not found", <<>>), wrote |-> NoName, entries |-> ents]
        ELSE LET first == CHOOSE i \in hit : \A j \in hit : i <= j
                 w == WriteFile(fs, ents, dir.names[first], sMinusOne)
             IN  [err |-> IF w.errno = "" THEN NoErr ELSE Err("write", w.errno),
                  wrote |-> dir.names[first],
                  entries |-> w.entries]

\* filepath.Join of a directory and a file name.
RECURSIVE TrimSlashes(_)
TrimSlashes(d) ==
    IF Len(d) > 1 /\ d[Len(d)] = "/" THEN TrimSlashes(SubSeq(d, 1, Len(d) - 1))
    ELSE d
PathJoin(d, name) ==
    IF TrimSlashes(d) = <<"/">> THEN <<"/">> \o name
    ELSE TrimSlashes(d) \o <<"/">> \o name

\* Mutant of getBinaryNames: the prefix is not validated.
getBinaryNames_noCheck(cfg, e) ==
    [err |-> NoErr,
     basename |-> e.prefix \o cfg.binary,
     fullpath |-> PathJoin(IF e.path # <<>> THEN e.path ELSE sUsrBin,
                           e.prefix \o cfg.binary)]

\* Mutant of getBinaryNames: QEMU_BINARY_PATH is not looked at.
getBinaryNames_defaultDir(cfg, e) ==
    IF e.prefix # <<>> /\ ContainsRune(e.prefix, "/")
    THEN [err |-> Err("binary prefix must not contain path separator", <<>>),
          basename |-> <<>>, fullpath |-> <<>>]
    ELSE [err |-> NoErr,
          basename |-> e.prefix \o cfg.binary,
          fullpath |-> PathJoin(sUsrBin, e.prefix \o cfg.binary)]

\* getBinaryNames(cfg): [err, basename, fullpath].
getBinaryNames(cfg, e) ==
    LET binaryPath == IF e.path # <<>> THEN e.path ELSE sUsrBin
    IN  IF e.prefix # <<>> /\ ContainsRune(e.prefix, "/")
        THEN [err |-> Err("binary prefix must not contain path separator", <<>>),
              basename |-> <<>>, fullpath |-> <<>>]
        ELSE [err |-> NoErr,
              basename |-> e.prefix \o cfg.binary,
              fullpath |-> PathJoin(binaryPath, e.prefix \o cfg.binary)]

\* Mutant of installFlags: QEMU_PRESERVE_ARGV0 is not looked at.
installFlags_noPreserve(e) == <<"C", "F">>

\* install: the flags of the record.
installFlags(e) == IF e.preserve # <<>> THEN <<"C", "F", "P">> ELSE <<"C", "F">>

\* install: the record, fmt.Sprintf(":%s:M:0:%s:%s:%s:%s", ...).
installLine(basename, cfg, fullpath, flags) ==
    <<":">> \o basename \o <<":", "M", ":", "0", ":">> \o cfg.magic \o <<":">>
        \o cfg.mask \o <<":">> \o fullpath \o <<":">> \o flags

NoLine == <<>>

\* Mutant of install: the binary names are resolved before the register
\* file is opened.
install_resolveFirst(fs, ents, bins, e, arch) ==
    IF arch \notin DOMAIN configs
    THEN [err |-> Err("unsupported architecture", arch), line |-> NoLine,
          entries |-> ents]
    ELSE IF getBinaryNames(configs[arch], e).err # NoErr
    THEN [err |-> getBinaryNames(configs[arch], e).err, line |-> NoLine,
          entries |-> ents]
    ELSE IF OpenRegister(fs) = "ENOENT"
    THEN [err |-> Err("ENOENT opening register is it mounted?", <<>>),
          line |-> NoLine, entries |-> ents]
    ELSE IF OpenRegister(fs) = "EPERM"
    THEN [err |-> Err("EPERM opening register check permissions?", <<>>),
          line |-> NoLine, entries |-> ents]
    ELSE IF OpenRegister(fs) # ""
    THEN [err |-> Err("Cannot open register", OpenRegister(fs)),
          line |-> NoLine, entries |-> ents]
    ELSE LET cfg == configs[arch]
             b == getBinaryNames(cfg, e)
             line == installLine(b.basename, cfg, b.fullpath, installFlags(e))
             w == KernelRegister(ents, line, bins)
         IN  IF w.errno = "EEXIST"
             THEN [err |-> Err("already registered", b.basename), line |-> line,
                   entries |-> w.entries]
             ELSE IF w.errno # ""
             THEN [err |-> Err("cannot register", w.errno), line |-> line,
                   entries |-> w.entries]
             ELSE [err |-> NoErr, line |-> line, entries |-> w.entries]

\* Mutant of install: the register file is opened before the architecture
\* is looked up.
install_openFirst(fs, ents, bins, e, arch) ==
    IF OpenRegister(fs) = "ENOENT"
    THEN [err |-> Err("ENOENT opening register is it mounted?", <<>>),
          line |-> NoLine, entries |-> ents]
    ELSE IF OpenRegister(fs) = "EPERM"
    THEN [err |-> Err("EPERM opening register check permissions?", <<>>),
          line |-> NoLine, entries |-> ents]
    ELSE IF OpenRegister(fs) # ""
    THEN [err |-> Err("Cannot open register", OpenRegister(fs)),
          line |-> NoLine, entries |-> ents]
    ELSE IF arch \notin DOMAIN configs
    THEN [err |-> Err("unsupported architecture", arch), line |-> NoLine,
          entries |-> ents]
    ELSE LET cfg == configs[arch]
             b == getBinaryNames(cfg, e)
             line == installLine(b.basename, cfg, b.fullpath, installFlags(e))
             w == KernelRegister(ents, line, bins)
         IN  IF b.err # NoErr
             THEN [err |-> b.err, line |-> NoLine, entries |-> ents]
             ELSE IF w.errno = "EEXIST"
             THEN [err |-> Err("already registered", b.basename), line |-> line,
                   entries |-> w.entries]
             ELSE IF w.errno # ""
             THEN [err |-> Err("cannot register", w.errno), line |-> line,
                   entries |-> w.entries]
             ELSE [err |-> NoErr, line |-> line, entries |-> w.entries]

\* Mutant of install: the record is made but not written.
install_noWrite(fs, ents, bins, e, arch) ==
    IF arch \notin DOMAIN configs
    THEN [err |-> Err("unsupported architecture", arch), line |-> NoLine,
          entries |-> ents]
    ELSE IF OpenRegister(fs) # ""
    THEN [err |-> Err("Cannot open register", OpenRegister(fs)),
          line |-> NoLine, entries |-> ents]
    ELSE LET cfg == configs[arch]
             b == getBinaryNames(cfg, e)
             line == installLine(b.basename, cfg, b.fullpath, installFlags(e))
         IN  IF b.err # NoErr
             THEN [err |-> b.err, line |-> NoLine, entries |-> ents]
             ELSE [err |-> NoErr, line |-> line, entries |-> ents]

\* Mutant of install: on "already exists" the entry is replaced.
install_replaceOnExists(fs, ents, bins, e, arch) ==
    IF arch \notin DOMAIN configs
    THEN [err |-> Err("unsupported architecture", arch), line |-> NoLine,
          entries |-> ents]
    ELSE IF OpenRegister(fs) # ""
    THEN [err |-> Err("Cannot open register", OpenRegister(fs)),
          line |-> NoLine, entries |-> ents]
    ELSE LET cfg == configs[arch]
             b == getBinaryNames(cfg, e)
             line == installLine(b.basename, cfg, b.fullpath, installFlags(e))
             w == KernelRegister({x \in ents : x.name # b.basename}, line, bins)
         IN  IF b.err # NoErr
             THEN [err |-> b.err, line |-> NoLine, entries |-> ents]
             ELSE IF w.errno # ""
             THEN [err |-> Err("cannot register", w.errno), line |-> line,
                   entries |-> ents]
             ELSE [err |-> NoErr, line |-> line, entries |-> w.entries]

\* Mutant of install: the kernel's "already exists" is taken for success.
install_okOnExists(fs, ents, bins, e, arch) ==
    IF arch \notin DOMAIN configs
    THEN [err |-> Err("unsupported architecture", arch), line |-> NoLine,
          entries |-> ents]
    ELSE IF OpenRegister(fs) # ""
    THEN [err |-> Err("Cannot open register", OpenRegister(fs)),
          line |-> NoLine, entries |-> ents]
    ELSE LET cfg == configs[arch]
             b == getBinaryNames(cfg, e)
             line == installLine(b.basename, cfg, b.fullpath, installFlags(e))
             w == KernelRegister(ents, line, bins)
         IN  IF b.err # NoErr
             THEN [err |-> b.err, line |-> NoLine, entries |-> ents]
             ELSE IF w.errno \notin {"", "EEXIST"}
             THEN [err |-> Err("cannot register", w.errno), line |-> line,
                   entries |-> w.entries]
             ELSE [err |-> NoErr, line |-> line, entries |-> w.entries]

\* install(arch): [err, line, entries], line being the record written.
install(fs, ents, bins, e, arch) ==
    IF arch \notin DOMAIN configs
    THEN [err |-> Err("unsupported architecture", arch), line |-> NoLine,
          entries |-> ents]
    ELSE IF OpenRegister(fs) = "ENOENT"
    THEN [err |-> Err("ENOENT opening register is it mounted?", <<>>),
          line |-> NoLine, entries |-> ents]
    ELSE IF OpenRegister(fs) = "EPERM"
    THEN [err |-> Err("EPERM opening register check permissions?", <<>>),
          line |-> NoLine, entries |-> ents]
    ELSE IF OpenRegister(fs) # ""
    THEN [err |-> Err("Cannot open register", OpenRegister(fs)),
          line |-> NoLine, entries |-> ents]
    ELSE LET cfg == configs[arch]
             b == getBinaryNames(cfg, e)
             line == installLine(b.basename, cfg, b.fullpath, installFlags(e))
             w == KernelRegister(ents, line, bins)
         IN  IF b.err # NoErr
             THEN [err |-> b.err, line |-> NoLine, entries |-> ents]
             ELSE IF w.errno = "EEXIST"
             THEN [err |-> Err("already registered", b.basename), line |-> line,
                   entries |-> w.entries]
             ELSE IF w.errno # ""
             THEN [err |-> Err("cannot register", w.errno), line |-> line,
                   entries |-> w.entries]
             ELSE [err |-> NoErr, line |-> line, entries |-> w.entries]

\* Mutant of enabledOf: the content of the entries is not looked at.
enabledOf_all(names, ents) ==
    SelectSeq(names, LAMBDA n : n \notin {sRegister, sStatus})

\* printStatus: [err, emulators], the enabled entries in directory order.
RECURSIVE enabledOf(_, _)
enabledOf(names, ents) ==
    IF names = <<>> THEN <<>>
    ELSE IF Head(names) \in {sRegister, sStatus}
    THEN enabledOf(Tail(names), ents)
    ELSE IF HasPrefix(ReadFile(EntryOf(ents, Head(names))), sEnabled)
    THEN <<Head(names)>> \o enabledOf(Tail(names), ents)
    ELSE enabledOf(Tail(names), ents)

printStatus(fs, ents) ==
    LET dir == ReadDir(fs, ents)
    IN  IF ~dir.ok THEN [err |-> Err("readdir", <<>>), emulators |-> <<>>]
        ELSE [err |-> NoErr, emulators |-> enabledOf(dir.names, ents)]

\* Mutant of parseArchTokens: the tokens are taken as they are.
parseArchTokens_verbatim(tokens) == tokens

\* The file operations of a call: [op, name, data], op being "readdir",
\* "readfile" or "write", and what the kernel makes of them: a read leaves
\* the entries as they are.
Access(op, name, data) == [op |-> op, name |-> name, data |-> data]

KernelAccess(fs, ents, a) ==
    IF a.op = "write" THEN WriteFile(fs, ents, a.name, a.data).entries ELSE ents

RECURSIVE KernelAccesses(_, _, _)
KernelAccesses(fs, ents, list) ==
    IF list = <<>> THEN ents
    ELSE KernelAccesses(fs, KernelAccess(fs, ents, Head(list)), Tail(list))

\* Mutant of printStatusAccesses: each entry read is enabled.
printStatusAccesses_enable(fs, ents) ==
    LET dir == ReadDir(fs, ents)
        files == SelectSeq(dir.names, LAMBDA n : n \notin {sRegister, sStatus})
    IN  <<Access("readdir", sMount, <<>>)>>
            \o [i \in 1..Len(files) |-> Access("write", files[i], <<"1">>)]

\* printStatus: its file operations, os.ReadDir(mount) and os.ReadFile of
\* each name but register and status.
printStatusAccesses(fs, ents) ==
    LET dir == ReadDir(fs, ents)
        files == SelectSeq(dir.names, LAMBDA n : n \notin {sRegister, sStatus})
    IN  <<Access("readdir", sMount, <<>>)>>
            \o [i \in 1..Len(files) |-> Access("readfile", files[i], <<>>)]

\* parseArch(in): the architectures of the comma-separated tokens.
RECURSIVE parseArchTokens(_)
parseArchTokens(tokens) ==
    IF tokens = <<>> THEN <<>>
    ELSE LET p == platformsParse(Head(tokens))
         IN  <<IF p.ok THEN p.arch ELSE Head(tokens)>>
                 \o parseArchTokens(Tail(tokens))

parseArch(in) == IF in = <<>> THEN <<>> ELSE parseArchTokens(Split(in, ","))

\* Mutant of uninstallName: the architecture is not translated.
uninstallName_verbatim(v) == v

\* parseUninstall: a token naming an architecture of the table becomes the
\* emulator's name without "qemu-".
uninstallName(v) ==
    LET p == platformsParse(v)
    IN  IF p.ok /\ p.arch \in DOMAIN configs
        THEN TrimPrefix(configs[p.arch].binary, sQemuDash)
        ELSE v

\* filepath.Clean on the components of a path: empty and "." components are
\* dropped, ".." drops the component before it.
RECURSIVE CleanComps(_, _)
CleanComps(stack, parts) ==
    IF parts = <<>> THEN stack
    ELSE IF Head(parts) \in {<<>>, <<".">>} THEN CleanComps(stack, Tail(parts))
    ELSE IF Head(parts) = <<".", ".">>
    THEN CleanComps(IF stack = <<>> THEN <<>>
                    ELSE SubSeq(stack, 1, Len(stack) - 1), Tail(parts))
    ELSE CleanComps(Append(stack, Head(parts)), Tail(parts))

\* The components of the mount point and of filepath.Join(mount, v).
MountComps == CleanComps(<<>>, Split(sMount, "/"))
GlobPath(v) == CleanComps(MountComps, Split(v, "/"))

\* Mutant of Glob: the names that end in v, wildcard or not.
Glob_suffix(fs, ents, v) ==
    SelectSeq(ReadDir(fs, ents).names, LAMBDA n : HasSuffix(n, v))

\* filepath.Glob(filepath.Join(mount, v)), as the base names of the matches,
\* sorted. A pattern without wildcard matches when the file exists; the
\* files that exist are the mount point, its ancestors and, when mounted,
\* its entries.
Glob(fs, ents, v) ==
    LET names == ReadDir(fs, ents).names
        path == GlobPath(v)
        dir == SubSeq(path, 1, Len(path) - 1)
        base == IF path = <<>> THEN <<"/">> ELSE path[Len(path)]
    IN  IF ~hasMeta(v)
        THEN IF \/ Len(path) < Len(MountComps)
                       /\ path = SubSeq(MountComps, 1, Len(path))
                \/ path = MountComps /\ fs # "absent"
                \/ path # <<>> /\ dir = MountComps /\ base \in Range(names)
             THEN <<base>>
             ELSE <<>>
        ELSE IF path # <<>> /\ dir = MountComps
             THEN SelectSeq(names, LAMBDA n : Match(base, n))
             ELSE <<>>

\* parseUninstall(in): the uninstall targets.
RECURSIVE parseUninstallTokens(_, _, _)
parseUninstallTokens(fs, ents, tokens) ==
    IF tokens = <<>> THEN <<>>
    ELSE LET v == uninstallName(Head(tokens))
             fis == Glob(fs, ents, v)
         IN  (IF fis = <<>> THEN <<v>> ELSE <<>>) \o fis
                 \o parseUninstallTokens(fs, ents, Tail(tokens))

parseUninstall(fs, ents, in) ==
    IF in = <<>> THEN <<>> ELSE parseUninstallTokens(fs, ents, Split(in, ","))

\* The sequences that list each element of a finite set once.
RECURSIVE Perms(_)
Perms(S) ==
    IF S = {} THEN {<<>>}
    ELSE UNION {{<<x>> \o q : q \in Perms(S \ {x})} : x \in S}

\* allArch: the architectures of archutil.SupportedPlatforms(true), the
\* host's own and those an enabled entry emulates.
SupportedArchs(ents) ==
    {HostArch} \cup
    {a \in DOMAIN configs :
        \E e \in ents : e.status = sEnabled /\ e.magic = configs[a].magic}

\* Mutant of allArchNames: the host's own architecture is not left out.
allArchNames_hostToo(ents, e, bins) ==
    {name \in DOMAIN configs \ (SupportedArchs(ents) \ {HostArch}) :
        LET b == getBinaryNames(configs[name], e)
        IN  IF b.err = NoErr THEN b.fullpath \in bins ELSE TRUE}

\* allArch: the names appended to out. An unsupported architecture is
\* appended when its binary exists, or when getBinaryNames fails.
allArchNames(ents, e, bins) ==
    {name \in DOMAIN configs \ SupportedArchs(ents) :
        LET b == getBinaryNames(configs[name], e)
        IN  IF b.err = NoErr THEN b.fullpath \in bins ELSE TRUE}

\* allArch(): the lists it can return; the order is that of the iteration
\* over the map configs, which differs from run to run.
allArch(ents, e, bins) == Perms(allArchNames(ents, e, bins))

-----------------------------------------------------------------------------
(* The run *)

\* Bounds and inputs of the model.
MaxTargets == 2

UninstallTokens == {sArm64, sQemuDash \o sAarch64, sQemuStar}
InstallTokens   == {sArm64, sMips}
Prefixes        == {<<>>, sBuildkit, sDotDot}

Lists(S, n) == UNION {[1..k -> S] : k \in 0..n}

\* The -uninstall and -install token lists of a run.
TargetLists(n) ==
    {p \in Lists(UninstallTokens, n) \X Lists(InstallTokens, n) :
        Len(p[1]) + Len(p[2]) <= n}

NoEnv == [prefix |-> <<>>, path |-> <<>>, preserve |-> <<>>]
Envs == {[prefix |-> x, path |-> <<>>, preserve |-> <<>>] : x \in Prefixes}

\* The emulators the image ships: those of the table in /usr/bin, with and
\* without the prefix "buildkit-".
BinariesPresent ==
    {PathJoin(sUsrBin, x \o configs[a].binary) :
        x \in {<<>>, sBuildkit}, a \in DOMAIN configs}

\* The entries another program may have registered before the first run.
Foreign(name, arch, status) ==
    [name |-> name, status |-> status, magic |-> configs[arch].magic,
     mask |-> configs[arch].mask, interpreter |-> PathJoin(sUsrBin, name),
     flags |-> <<"C", "F">>]
InitialEntries ==
    {ents \in SUBSET {Foreign(n[1], n[2], st) :
                        n \in {<<sQemuDash \o sAarch64, sArm64>>,
                               <<sBuildkit \o sQemuDash \o sAarch64, sArm64>>,
                               <<sQemuDash \o sArm, sArm>>},
                        st \in {sEnabled, sDisabled}} :
        \A a, b \in ents : a.name = b.name => a = b}

\* What is kept of the start of a run: the mount point and the entries, and
\* for a run that repeats the command line of the run before it, the entries
\* that run started with and what it returned.
RunStart(fs, ents) ==
    [fs |-> fs, entries |-> ents, again |-> FALSE, before |-> ents,
     first |-> NoErr]

Ev(op, arg, err, data) == [op |-> op, arg |-> arg, err |-> err, data |-> data]
NoPrev == [arch |-> <<>>, name |-> <<>>]

OpsOf(l, op) == SelectSeq(l, LAMBDA ev : ev.op = op)
LineName(line) == Split(line, ":")[2]

\* Mutant of runNext: the installs are done before the uninstalls.
runNext_installFirst(phase) ==
    CASE phase = "run" -> "install"
      [] phase = "install" -> "uninstall"
      [] phase = "uninstall" -> "status"
      [] OTHER -> "exit"

\* run: the order of its phases.
runNext(phase) ==
    CASE phase = "run" -> "uninstall"
      [] phase = "uninstall" -> "install"
      [] phase = "install" -> "status"
      [] OTHER -> "exit"

\* Mutant of loopNext: the loop ends at the first target that fails.
loopNext_abort(i, err) == IF err = NoErr THEN i + 1 ELSE i + MaxTargets + 1

\* run: the loops go on to the next target whatever the outcome.
loopNext(i, err) == i + 1

\* Mutant of ensureMount: the unmount is never deferred.
ensureMount_noDefer(fs, errno) ==
    IF IsMounted(fs) THEN [err |-> NoErr, fs |-> fs, deferred |-> FALSE, called |-> FALSE]
    ELSE IF errno # ""
    THEN [err |-> Err("cannot mount binfmt_misc filesystem at", <<sMount, errno>>),
          fs |-> fs, deferred |-> FALSE, called |-> TRUE]
    ELSE [err |-> NoErr, fs |-> "mounted", deferred |-> FALSE, called |-> TRUE]

\* Mutant of ensureMount: the unmount is deferred whoever mounted.
ensureMount_alwaysDefer(fs, errno) ==
    IF IsMounted(fs) THEN [err |-> NoErr, fs |-> fs, deferred |-> TRUE, called |-> FALSE]
    ELSE IF errno # ""
    THEN [err |-> Err("cannot mount binfmt_misc filesystem at", <<sMount, errno>>),
          fs |-> fs, deferred |-> TRUE, called |-> TRUE]
    ELSE [err |-> NoErr, fs |-> "mounted", deferred |-> TRUE, called |-> TRUE]

\* Mutant of ensureMount: the error of the mount call is dropped.
ensureMount_ignoreError(fs, errno) ==
    IF IsMounted(fs) THEN [err |-> NoErr, fs |-> fs, deferred |-> FALSE, called |-> FALSE]
    ELSE [err |-> NoErr, fs |-> IF errno = "" THEN "mounted" ELSE fs,
          deferred |-> TRUE, called |-> TRUE]

\* run: the mount check. [err, fs, deferred, called] for the mount system
\* call's errno: called says that mount(2) was called, deferred that the
\* unmount is deferred to the return.
ensureMount(fs, errno) ==
    IF IsMounted(fs) THEN [err |-> NoErr, fs |-> fs, deferred |-> FALSE, called |-> FALSE]
    ELSE IF errno # ""
    THEN [err |-> Err("cannot mount binfmt_misc filesystem at", <<sMount, errno>>),
          fs |-> fs, deferred |-> FALSE, called |-> TRUE]
    ELSE [err |-> NoErr, fs |-> "mounted", deferred |-> TRUE, called |-> TRUE]

\* The outcomes of mount(2) at the mount point.
MountErrnos(fs) == IF fs = "absent" THEN {"ENOENT"} ELSE {"", "EPERM"}

Init ==
    /\ fsState \in {"absent", "unmounted", "mounted"}
    /\ entries \in InitialEntries
    /\ fsState = "absent" => entries = {}
    /\ binaries = BinariesPresent
    /\ procs = <<>>
    /\ pc = "idle"
    /\ flVersion = FALSE
    /\ toUninstall = <<>>
    /\ toInstall = <<>>
    /\ env = NoEnv
    /\ uninstallTargets = <<>>
    /\ installArchs = <<>>
    /\ idx = 1
    /\ mountedByUs = FALSE
    /\ log = <<>>
    /\ result = NoErr
    /\ start = RunStart(fsState, entries)
    /\ prev = NoPrev

\* The process starts: flag.Parse and the environment.
Begin(version, lists, e) ==
    /\ pc = "idle"
    /\ pc' = "run"
    /\ flVersion' = version
    /\ toUninstall' = Join(lists[1], ",")
    /\ toInstall' = Join(lists[2], ",")
    /\ env' = e
    /\ uninstallTargets' = <<>>
    /\ installArchs' = <<>>
    /\ idx' = 1
    /\ mountedByUs' = FALSE
    /\ log' = <<>>
    /\ result' = NoErr
    /\ start' = RunStart(fsState, entries)
    /\ UNCHANGED <<binaries, procs, fsState, entries, prev>>

\* The environment matters to install alone: it varies in the runs that install.
StartRun ==
    \E lists \in TargetLists(MaxTargets) :
        \E e \in IF lists[2] = <<>> THEN {NoEnv} ELSE Envs : Begin(FALSE, lists, e)

StartVersionRun == \E lists \in TargetLists(1) : Begin(TRUE, lists, NoEnv)

\* Entering a phase of run: the loops evaluate their range expression once.
Enter(phase, fs) ==
    /\ pc' = phase
    /\ idx' = 1
    /\ uninstallTargets' =
           IF phase = "uninstall" THEN parseUninstall(fs, entries, toUninstall)
           ELSE uninstallTargets
    /\ installArchs' \in
           IF phase = "install"
           THEN IF toInstall = sAll THEN allArch(entries, env, binaries)
                ELSE {parseArch(toInstall)}
           ELSE {installArchs}

\* run with -version: prints the version and returns.
PrintVersion ==
    /\ pc = "run" /\ flVersion
    /\ log' = Append(log, Ev("version", <<>>, NoErr, <<>>))
    /\ pc' = "exit"
    /\ UNCHANGED <<binaries, procs, fsState, entries, flVersion, toUninstall, toInstall, env,
                   uninstallTargets, installArchs, idx, mountedByUs, result,
                   start, prev>>

\* run: the status marker is looked for and the filesystem mounted if absent.
EnsureMount ==
    /\ pc = "run" /\ ~flVersion
    /\ \E errno \in MountErrnos(fsState) :
        LET m == ensureMount(fsState, errno)
        IN  /\ fsState' = m.fs
            /\ mountedByUs' = m.deferred
            /\ log' = IF m.called
                      THEN Append(log, Ev("mount", sMount, m.err, errno))
                      ELSE log
            /\ IF m.err # NoErr
               THEN /\ result' = m.err
                    /\ pc' = "exit"
                    /\ UNCHANGED <<idx, uninstallTargets, installArchs>>
               ELSE /\ result' = result
                    /\ Enter(runNext("run"), m.fs)
    /\ UNCHANGED <<binaries, procs, entries, flVersion, toUninstall, toInstall, env, start, prev>>

\* One iteration of the uninstall loop.
UninstallStep ==
    /\ pc = "uninstall" /\ idx <= Len(uninstallTargets)
    /\ LET u == uninstall(fsState, entries, uninstallTargets[idx])
       IN  /\ entries' = u.entries
           /\ log' = Append(log, Ev("uninstall", uninstallTargets[idx], u.err, u.wrote))
           /\ idx' = loopNext(idx, u.err)
    /\ UNCHANGED <<binaries, procs, fsState, pc, flVersion, toUninstall, toInstall, env,
                   uninstallTargets, installArchs, mountedByUs, result, start, prev>>

\* One iteration of the install loop.
InstallStep ==
    /\ pc = "install" /\ idx <= Len(installArchs)
    /\ LET r == install(fsState, entries, binaries, env, installArchs[idx])
       IN  /\ entries' = r.entries
           /\ log' = Append(log, Ev("install", installArchs[idx], r.err, r.line))
           /\ idx' = loopNext(idx, r.err)
    /\ UNCHANGED <<binaries, procs, fsState, pc, flVersion, toUninstall, toInstall, env,
                   uninstallTargets, installArchs, mountedByUs, result, start, prev>>

\* A loop of run has no target left.
LoopDone ==
    /\ \/ pc = "uninstall" /\ idx > Len(uninstallTargets)
       \/ pc = "install" /\ idx > Len(installArchs)
    /\ Enter(runNext(pc), fsState)
    /\ UNCHANGED <<binaries, procs, fsState, entries, flVersion, toUninstall, toInstall, env,
                   mountedByUs, log, result, start, prev>>

\* run: return printStatus().
PrintStatus ==
    /\ pc = "status"
    /\ LET st == printStatus(fsState, entries)
       IN  /\ log' = Append(log, Ev("status", <<>>, st.err, st.emulators))
           /\ result' = st.err
    /\ pc' = "exit"
    /\ UNCHANGED <<binaries, procs, fsState, entries, flVersion, toUninstall, toInstall, env,
                   uninstallTargets, installArchs, idx, mountedByUs, start, prev>>

\* What a run leaves for the next one: the architecture and entry of a run
\* that was one successful install and nothing else.
Installed(l) ==
    LET ins == OpsOf(l, "install")
    IN  IF Len(ins) = 1 /\ OpsOf(l, "uninstall") = <<>> /\ ins[1].err = NoErr
        THEN [arch |-> ins[1].arg, name |-> LineName(ins[1].data)]
        ELSE NoPrev

\* run returns: the deferred unmount runs and the process ends.
Exit ==
    /\ pc = "exit"
    /\ IF mountedByUs
       THEN /\ fsState' = "unmounted"
            /\ log' = Append(log, Ev("unmount", sMount, NoErr, <<>>))
       ELSE UNCHANGED <<fsState, log>>
    /\ pc' = "done"
    /\ prev' = Installed(log)
    /\ UNCHANGED <<binaries, procs, entries, flVersion, toUninstall, toInstall, env,
                   uninstallTargets, installArchs, idx, mountedByUs, result, start>>

\* The process has ended: nothing of it is left but what the kernel holds.
ProcessEnd ==
    /\ pc = "done"
    /\ pc' = "idle"
    /\ flVersion' = FALSE
    /\ toUninstall' = <<>>
    /\ toInstall' = <<>>
    /\ env' = NoEnv
    /\ uninstallTargets' = <<>>
    /\ installArchs' = <<>>
    /\ idx' = 1
    /\ mountedByUs' = FALSE
    /\ log' = <<>>
    /\ result' = NoErr
    /\ start' = RunStart(fsState, entries)
    /\ UNCHANGED <<binaries, procs, fsState, entries, prev>>

Next ==
    \/ StartRun
    \/ StartVersionRun
    \/ PrintVersion
    \/ EnsureMount
    \/ UninstallStep
    \/ InstallStep
    \/ LoopDone
    \/ PrintStatus
    \/ Exit
    \/ ProcessEnd

Spec == Init /\ [][Next]_vars

-----------------------------------------------------------------------------
(* Single runs *)

\* The state at the start of run() of one invocation of the program.
InitRun(fs, ents, bins, u, i, e) ==
    /\ fsState = fs
    /\ binaries = bins
    /\ procs = <<>>
    /\ entries = ents
    /\ pc = "run"
    /\ flVersion = FALSE
    /\ toUninstall = u
    /\ toInstall = i
    /\ env = e
    /\ uninstallTargets = <<>>
    /\ installArchs = <<>>
    /\ idx = 1
    /\ mountedByUs = FALSE
    /\ log = <<>>
    /\ result = NoErr
    /\ start = RunStart(fs, ents)
    /\ prev = NoPrev

\* One run "-install a,b" for architectures a and b of the table, on a
\* mount point without entries, under each setting of the three environment
\* variables.
sOptQemu == <<"/", "o", "p", "t", "/", "q", "e", "m", "u">>

InstallEnvs ==
    {[prefix |-> x, path |-> d, preserve |-> v] :
        x \in {<<>>, sBuildkit}, d \in {<<>>, sOptQemu \o <<"/">>},
        v \in {<<>>, <<"1">>}}

InstallBinaries ==
    BinariesPresent \cup
    {PathJoin(sOptQemu, x \o configs[a].binary) :
        x \in {<<>>, sBuildkit}, a \in DOMAIN configs}

InitInstall ==
    \E a, b \in DOMAIN configs, e \in InstallEnvs :
        InitRun("mounted", {}, InstallBinaries, <<>>, Join(<<a, b>>, ","), e)

NextInstall ==
    \/ EnsureMount
    \/ InstallStep
    \/ LoopDone
    \/ PrintStatus
    \/ Exit

SpecInstall == InitInstall /\ [][NextInstall]_vars

\* One run "-uninstall t" on a mounted filesystem that holds the entry of the
\* Windows interoperability layer besides emulators, by a process that may
\* lack the permission to write; t is a reserved name, a glob, an
\* architecture or an emulator's name.
WSLInterop ==
    [name |-> sWSLInterop, status |-> sEnabled, magic |-> <<"M", "Z">>,
     mask |-> <<>>, interpreter |-> <<"/", "i", "n", "i", "t">>,
     flags |-> <<"P", "F">>]

ReservedTokens ==
    {<<>>, sRegister, sStatus, sWSLInterop, <<"*">>, sArm64, sQemuDash \o sAarch64}

ReservedEntries ==
    {w \cup a \cup b \cup c :
        w \in {{}, {WSLInterop}},
        a \in {{}, {Foreign(sQemuDash \o sAarch64, sArm64, sEnabled)},
                   {Foreign(sQemuDash \o sAarch64, sArm64, sDisabled)}},
        b \in {{}, {Foreign(sBuildkit \o sQemuDash \o sAarch64, sArm64, sEnabled)}},
        c \in {{}, {Foreign(sQemuDash \o sArm, sArm, sDisabled)}}}

InitReserved ==
    \E fs \in {"mounted", "mounted:EACCES"}, ents \in ReservedEntries,
       t \in ReservedTokens :
        InitRun(fs, ents, BinariesPresent, t, <<>>, NoEnv)

NextReserved ==
    \/ EnsureMount
    \/ UninstallStep
    \/ LoopDone
    \/ PrintStatus
    \/ Exit

SpecReserved == InitReserved /\ [][NextReserved]_vars

\* One run "-install all" on a host that emulates all architectures of the
\* table but arm64, arm and riscv64, with any of the three emulators on the
\* disk, and with a valid or an invalid prefix.
sRiscv64 == <<"r", "i", "s", "c", "v", "6", "4">>

AllEntries ==
    {Foreign(configs[a].binary, a, sEnabled) :
        a \in DOMAIN configs \ {HostArch, sArm64, sArm, sRiscv64}}

AllBinaries ==
    {(BinariesPresent \ {PathJoin(sUsrBin, configs[a].binary) :
                            a \in {sArm64, sArm, sRiscv64}}) \cup present :
        present \in SUBSET {PathJoin(sUsrBin, configs[a].binary) :
                              a \in {sArm64, sArm, sRiscv64}}}

InitAll ==
    \E bins \in AllBinaries, x \in {<<>>, sDotDot} :
        InitRun("mounted", AllEntries, bins, <<>>, sAll,
                [prefix |-> x, path |-> <<>>, preserve |-> <<>>])

NextAll ==
    \/ EnsureMount
    \/ InstallStep
    \/ LoopDone
    \/ PrintStatus
    \/ Exit

SpecAll == InitAll /\ [][NextAll]_vars

\* Two processes call install for the same architecture at the same time,
\* with the same prefix; each opens the register file and then writes its
\* record with one write, which the kernel executes one at a time.
Call(e, arch) ==
    [pc |-> "install", env |-> e, arch |-> arch, err |-> NoErr, line |-> NoLine]

RaceEnvs(x) ==
    {[prefix |-> x, path |-> d, preserve |-> v] :
        d \in {<<>>, sOptQemu}, v \in {<<>>, <<"1">>}}

InitRace ==
    \E a \in DOMAIN configs, x \in {<<>>, sBuildkit} :
        \E e1, e2 \in RaceEnvs(x) :
            /\ fsState = "mounted"
            /\ binaries = InstallBinaries
            /\ procs = <<Call(e1, a), Call(e2, a)>>
            /\ entries = {}
            /\ pc = "race"
            /\ flVersion = FALSE
            /\ toUninstall = <<>>
            /\ toInstall = a
            /\ env = NoEnv
            /\ uninstallTargets = <<>>
            /\ installArchs = <<>>
            /\ idx = 1
            /\ mountedByUs = FALSE
            /\ log = <<>>
            /\ result = NoErr
            /\ start = RunStart("mounted", {})
            /\ prev = NoPrev

\* install of process p up to os.OpenFile: the lookup in configs and the open.
RaceOpen(p) ==
    /\ procs[p].pc = "install"
    /\ LET r == install(fsState, entries, binaries, procs[p].env, procs[p].arch)
       IN  procs' =
               IF procs[p].arch \in DOMAIN configs /\ OpenRegister(fsState) = ""
               THEN [procs EXCEPT ![p].pc = "opened"]
               ELSE [procs EXCEPT ![p].pc = "done", ![p].err = r.err]
    /\ UNCHANGED <<fsState, binaries, entries, pc, flVersion, toUninstall,
                   toInstall, env, uninstallTargets, installArchs, idx,
                   mountedByUs, log, result, start, prev>>

\* install of process p from the open on: the record and its write to the
\* file opened, on the entries as they are at the write.
RaceWrite(p) ==
    /\ procs[p].pc = "opened"
    /\ LET r == install("mounted", entries, binaries, procs[p].env, procs[p].arch)
       IN  /\ entries' = r.entries
           /\ procs' = [procs EXCEPT ![p].pc = "done", ![p].err = r.err,
                                     ![p].line = r.line]
    /\ UNCHANGED <<fsState, binaries, pc, flVersion, toUninstall, toInstall,
                   env, uninstallTargets, installArchs, idx, mountedByUs, log,
                   result, start, prev>>

NextRace ==
    \/ \E p \in {1, 2} : RaceOpen(p)
    \/ \E p \in {1, 2} : RaceWrite(p)

SpecRace == InitRace /\ [][NextRace]_vars

\* The same command line run twice, the second run directly after the first.
TwiceUninstalls ==
    {<<>>, sArm64, sQemuDash \o sAarch64, sQemuStar, Join(<<sArm64, sArm64>>, ",")}

InitTwice ==
    \E fs \in {"unmounted", "mounted"}, ents \in InitialEntries,
       u \in TwiceUninstalls, i \in {<<>>, sArm64} :
        \E x \in IF i = <<>> THEN {<<>>} ELSE {<<>>, sBuildkit} :
            InitRun(fs, ents, BinariesPresent, u, i,
                    [prefix |-> x, path |-> <<>>, preserve |-> <<>>])

\* The process has ended and the same command line is run again.
Rerun ==
    /\ pc = "done" /\ ~start.again
    /\ pc' = "run"
    /\ uninstallTargets' = <<>>
    /\ installArchs' = <<>>
    /\ idx' = 1
    /\ mountedByUs' = FALSE
    /\ log' = <<>>
    /\ result' = NoErr
    /\ start' = [fs |-> fsState, entries |-> entries, again |-> TRUE,
                 before |-> start.entries, first |-> result]
    /\ UNCHANGED <<fsState, binaries, procs, entries, flVersion, toUninstall,
                   toInstall, env, prev>>

NextTwice ==
    \/ EnsureMount
    \/ UninstallStep
    \/ InstallStep
    \/ LoopDone
    \/ PrintStatus
    \/ Exit
    \/ Rerun

SpecTwice == InitTwice /\ [][NextTwice]_vars

\* One run "-install a" by a process that may lack the permission to open
\* the register file for writing, with a valid or an invalid prefix.
DeniedTokens == {sArm64, sAmd64, sMips}

InitDenied ==
    \E fs \in {"mounted", "mounted:EACCES", "mounted:EPERM"},
       a \in DeniedTokens, x \in {<<>>, sDotDot}, d \in {<<>>, sOptQemu} :
        InitRun(fs, {}, InstallBinaries, <<>>, a,
                [prefix |-> x, path |-> d, preserve |-> <<>>])

NextDenied ==
    \/ EnsureMount
    \/ InstallStep
    \/ LoopDone
    \/ PrintStatus
    \/ Exit

SpecDenied == InitDenied /\ [][NextDenied]_vars

\* One run "-install a,b" where a and b may be names the table does not
\* have, by a process that may lack the permission to open the register file.
sSparc == <<"s", "p", "a", "r", "c">>

UnsupportedTokens == {sArm64, sMips, sSparc, sLinux \o <<"/">> \o sMips}

InitUnsupported ==
    \E fs \in {"unmounted", "mounted", "mounted:EACCES"},
       ents \in {{}, {Foreign(sQemuDash \o sAarch64, sArm64, sEnabled)}},
       a, b \in UnsupportedTokens :
        InitRun(fs, ents, BinariesPresent, <<>>, Join(<<a, b>>, ","), NoEnv)

NextUnsupported ==
    \/ EnsureMount
    \/ InstallStep
    \/ LoopDone
    \/ PrintStatus
    \/ Exit

SpecUnsupported == InitUnsupported /\ [][NextUnsupported]_vars

\* One run "-install s" for selectors s of none, one or two tokens: names of
\* the table, aliases, platform specifiers, an operating system, a name
\* that does not parse and the empty token.
SelectorTokens ==
    {<<>>, sArm64, sAarch64, sLinux \o <<"/">> \o sArm64, sLinux, sSparc}

InitSelector ==
    \E fs \in {"unmounted", "mounted"}, toks \in Lists(SelectorTokens, 2) :
        InitRun(fs, {}, BinariesPresent, <<>>, Join(toks, ","), NoEnv)

NextSelector ==
    \/ EnsureMount
    \/ InstallStep
    \/ LoopDone
    \/ PrintStatus
    \/ Exit

SpecSelector == InitSelector /\ [][NextSelector]_vars

\* One run "-uninstall s" for selectors s of one or two tokens: an
\* architecture, a platform specifier, an emulator's name, its name without
\* "qemu-", a glob, and tokens that are not file names: the empty token,
\* "." and a name with a trailing separator.
TokenTokens ==
    {<<>>, <<".">>, sQemuDash \o sAarch64 \o <<"/">>, sArm64,
     sLinux \o <<"/">> \o sArm64, sQemuDash \o sAarch64, sAarch64, sQemuStar}

TokenEntries ==
    {{},
     {Foreign(sQemuDash \o sAarch64, sArm64, sEnabled)},
     {Foreign(sQemuDash \o sAarch64, sArm64, sEnabled),
      Foreign(sBuildkit \o sQemuDash \o sAarch64, sArm64, sEnabled)},
     {Foreign(sQemuDash \o sAarch64, sArm64, sEnabled),
      Foreign(sQemuDash \o sArm, sArm, sDisabled)}}

InitTokens ==
    \E fs \in {"unmounted", "mounted"}, ents \in TokenEntries,
       toks \in Lists(TokenTokens, 2) :
        InitRun(fs, ents, BinariesPresent, Join(toks, ","), <<>>, NoEnv)

NextTokens ==
    \/ EnsureMount
    \/ UninstallStep
    \/ LoopDone
    \/ PrintStatus
    \/ Exit

SpecTokens == InitTokens /\ [][NextTokens]_vars

\* A run "-install a" for an architecture a of the table, with or without
\* the prefix "buildkit-", and then a run "-uninstall a" or "-uninstall
\* linux/a".
TranslateEntries ==
    {{},
     {Foreign(sBuildkit \o sQemuDash \o sAarch64, sArm64, sEnabled)},
     {Foreign(sQemuDash \o sArm, sArm, sDisabled)}}

InitTranslate ==
    \E fs \in {"unmounted", "mounted"}, ents \in TranslateEntries,
       a \in DOMAIN configs, x \in {<<>>, sBuildkit} :
        InitRun(fs, ents, BinariesPresent, <<>>, a,
                [prefix |-> x, path |-> <<>>, preserve |-> <<>>])

\* The install run has ended with its one install done; the uninstall run
\* starts.
UninstallRun ==
    /\ pc = "done" /\ prev # NoPrev /\ toInstall # <<>>
    /\ pc' = "run"
    /\ toUninstall' \in {prev.arch, sLinux \o <<"/">> \o prev.arch}
    /\ toInstall' = <<>>
    /\ env' = NoEnv
    /\ uninstallTargets' = <<>>
    /\ installArchs' = <<>>
    /\ idx' = 1
    /\ mountedByUs' = FALSE
    /\ log' = <<>>
    /\ result' = NoErr
    /\ start' = RunStart(fsState, entries)
    /\ UNCHANGED <<fsState, binaries, procs, entries, flVersion, prev>>

NextTranslate ==
    \/ EnsureMount
    \/ UninstallStep
    \/ InstallStep
    \/ LoopDone
    \/ PrintStatus
    \/ Exit
    \/ UninstallRun

SpecTranslate == InitTranslate /\ [][NextTranslate]_vars

\* The ends of a run the kernel and other processes can bring about.
\* printStatus fails: another process has deregistered an entry between the
\* read of the directory and the read of the entry's file.
PrintStatusRaced ==
    /\ pc = "status" /\ IsMounted(fsState)
    /\ \E e \in entries :
        /\ entries' = entries \ {e}
        /\ log' = Append(log, Ev("status", <<>>, Err("readfile", e.name), <<>>))
        /\ result' = Err("readfile", e.name)
    /\ pc' = "exit"
    /\ UNCHANGED <<binaries, procs, fsState, flVersion, toUninstall, toInstall, env,
                   uninstallTargets, installArchs, idx, mountedByUs, start, prev>>

\* The deferred unmount fails (the mount point is busy): its return value is
\* dropped and the filesystem stays mounted.
ExitBusy ==
    /\ pc = "exit" /\ mountedByUs
    /\ log' = Append(log, Ev("unmount", sMount, Err("unmount", "EBUSY"), <<>>))
    /\ pc' = "done"
    /\ prev' = Installed(log)
    /\ UNCHANGED <<fsState, binaries, procs, entries, flVersion, toUninstall,
                   toInstall, env, uninstallTargets, installArchs, idx,
                   mountedByUs, result, start>>

\* The deferred unmount was the last mount of a filesystem instance that the
\* mount of this run brought into being: a kernel that does not keep an
\* instance alive for its entries (Linux from 6.7 on) removes them with it.
ExitLastMount ==
    /\ pc = "exit" /\ mountedByUs /\ start.entries = {}
    /\ fsState' = "unmounted"
    /\ entries' = {}
    /\ log' = Append(log, Ev("unmount", sMount, NoErr, <<"l", "a", "s", "t">>))
    /\ pc' = "done"
    /\ prev' = Installed(log)
    /\ UNCHANGED <<binaries, procs, flVersion, toUninstall, toInstall, env,
                   uninstallTargets, installArchs, idx, mountedByUs, result, start>>

ExitEntries ==
    {{}, {Foreign(sQemuDash \o sAarch64, sArm64, sEnabled)},
         {Foreign(sQemuDash \o sArm, sArm, sEnabled)}}

InitExit ==
    \E fs \in {"unmounted", "mounted"}, ents \in ExitEntries,
       u \in {<<>>, sArm64}, i \in {<<>>, sArm64, Join(<<sMips, sArm64>>, ",")} :
        InitRun(fs, ents, BinariesPresent, u, i, NoEnv)

NextExit ==
    \/ EnsureMount
    \/ UninstallStep
    \/ InstallStep
    \/ LoopDone
    \/ PrintStatus
    \/ PrintStatusRaced
    \/ Exit
    \/ ExitBusy
    \/ ExitLastMount

SpecExit == InitExit /\ [][NextExit]_vars

\* printStatus called up to MaxCalls times in a row, on a mount point that
\* is absent, unmounted or mounted, with enabled and disabled entries.
MaxCalls == 3

InitStatus ==
    \E fs \in {"absent", "unmounted", "mounted", "mounted:EACCES"},
       ents \in ReservedEntries :
        /\ fs = "absent" => ents = {}
        /\ fsState = fs
        /\ binaries = BinariesPresent
        /\ procs = <<>>
        /\ entries = ents
        /\ pc = "status"
        /\ flVersion = FALSE
        /\ toUninstall = <<>>
        /\ toInstall = <<>>
        /\ env = NoEnv
        /\ uninstallTargets = <<>>
        /\ installArchs = <<>>
        /\ idx = 1
        /\ mountedByUs = FALSE
        /\ log = <<>>
        /\ result = NoErr
        /\ start = RunStart(fs, ents)
        /\ prev = NoPrev

\* One call of printStatus: its reads, and what it returns and prints.
StatusCall ==
    /\ pc = "status" /\ Len(log) < MaxCalls
    /\ LET st == printStatus(fsState, entries)
       IN  /\ log' = Append(log, Ev("status", <<>>, st.err, st.emulators))
           /\ result' = st.err
    /\ entries' = KernelAccesses(fsState, entries,
                                 printStatusAccesses(fsState, entries))
    /\ UNCHANGED <<binaries, procs, fsState, pc, flVersion, toUninstall, toInstall,
                   env, uninstallTargets, installArchs, idx, mountedByUs, start,
                   prev>>

NextStatus == StatusCall

SpecStatus == InitStatus /\ [][NextStatus]_vars

\* Two invocations at the same time: this one, "-install a[,b]", and another
\* one without targets, which checks the mount, reads the status and
\* returns. Neither knows of the other.
Other(at, deferred) == [pc |-> at, deferred |-> deferred]

InitTwo ==
    \E fs \in {"unmounted", "mounted"},
       ents \in {{}, {Foreign(sQemuDash \o sArm, sArm, sEnabled)}},
       i \in {sArm64, Join(<<sArm64, sRiscv64>>, ",")} :
        /\ fsState = fs
        /\ binaries = BinariesPresent
        /\ procs = <<Other("run", FALSE)>>
        /\ entries = ents
        /\ pc = "run"
        /\ flVersion = FALSE
        /\ toUninstall = <<>>
        /\ toInstall = i
        /\ env = NoEnv
        /\ uninstallTargets = <<>>
        /\ installArchs = <<>>
        /\ idx = 1
        /\ mountedByUs = FALSE
        /\ log = <<>>
        /\ result = NoErr
        /\ start = RunStart(fs, ents)
        /\ prev = NoPrev

\* The other invocation's mount check.
OtherEnsureMount ==
    /\ procs[1].pc = "run"
    /\ \E errno \in MountErrnos(fsState) :
        LET m == ensureMount(fsState, errno)
        IN  /\ fsState' = m.fs
            /\ procs' = <<Other(IF m.err # NoErr THEN "done" ELSE "status",
                                m.deferred)>>
    /\ UNCHANGED <<binaries, entries, pc, flVersion, toUninstall, toInstall, env,
                   uninstallTargets, installArchs, idx, mountedByUs, log, result,
                   start, prev>>

\* The other invocation's status read.
OtherStatus ==
    /\ procs[1].pc = "status"
    /\ procs' = <<Other("exit", procs[1].deferred)>>
    /\ UNCHANGED <<fsState, binaries, entries, pc, flVersion, toUninstall,
                   toInstall, env, uninstallTargets, installArchs, idx,
                   mountedByUs, log, result, start, prev>>

\* The other invocation returns: its deferred unmount, if any, runs.
OtherExit ==
    /\ procs[1].pc = "exit"
    /\ fsState' = IF procs[1].deferred THEN "unmounted" ELSE fsState
    /\ procs' = <<Other("done", procs[1].deferred)>>
    /\ UNCHANGED <<binaries, entries, pc, flVersion, toUninstall, toInstall, env,
                   uninstallTargets, installArchs, idx, mountedByUs, log, result,
                   start, prev>>

NextTwo ==
    \/ EnsureMount
    \/ InstallStep
    \/ LoopDone
    \/ PrintStatus
    \/ Exit
    \/ OtherEnsureMount
    \/ OtherStatus
    \/ OtherExit

SpecTwo == InitTwo /\ [][NextTwo]_vars

-----------------------------------------------------------------------------
(* The claims *)

\* A name is addressed by a target: it equals it or ends in "-" and it.
NamedBy(name, target) ==
    \/ name = target
    \/ /\ Len(name) > Len(target)
       /\ name[Len(name) - Len(target)] = "-"
       /\ \A i \in 1..Len(target) : name[Len(name) - Len(target) + i] = target[i]

\* The emulator name of the table's architecture a, without "qemu-".
TargetOf(a) == SubSeq(configs[a].binary, 6, Len(configs[a].binary))

\* The emulators list a status read of the current state reports.
Snapshot == printStatus(fsState, entries).emulators

RECURSIVE Args(_)
Args(evs) == IF evs = <<>> THEN <<>> ELSE <<Head(evs).arg>> \o Args(Tail(evs))

Uninstalls == OpsOf(log, "uninstall")
Installs   == OpsOf(log, "install")
Statuses   == OpsOf(log, "status")

\* This run is "-uninstall x" directly after a run that was a successful
\* "-install x", and its uninstall has been done.
UninstalledAfterInstall ==
    /\ prev # NoPrev
    /\ toUninstall = prev.arch
    /\ pc = "uninstall" /\ idx = 2

C2_UninstallByName ==
    (/\ pc = "uninstall" /\ idx > Len(uninstallTargets)
     /\ toUninstall \in Range(printStatus("mounted", start.entries).emulators))
    => /\ \E i \in 1..Len(Uninstalls) :
            Uninstalls[i].err = NoErr /\ Uninstalls[i].data = toUninstall
       /\ toUninstall \notin Range(Snapshot)

\* C3: a run with uninstall target qemu-* deregisters every entry whose name
\* matches the glob; when none matches, the one outcome is "not found" for
\* the glob string itself and no entry changes.
C3_UninstallGlob ==
    (pc = "uninstall" /\ idx > Len(uninstallTargets) /\ toUninstall = sQemuStar)
    => LET matching == {e.name : e \in {x \in start.entries : Match(sQemuStar, x.name)}}
       IN  IF matching # {}
           THEN matching \cap Names(entries) = {}
           ELSE /\ Len(Uninstalls) = 1
                /\ Uninstalls[1].arg = sQemuStar
                /\ Uninstalls[1].err = Err("not found", <<>>)
                /\ entries = start.entries

\* C4: install of an architecture whose entry name is registered returns
\* "already registered", changes no entry and is attempted once.
C4_AlreadyRegistered ==
    [][(/\ pc = "install" /\ idx <= Len(installArchs)
        /\ installArchs[idx] \in DOMAIN configs
        /\ ~ContainsRune(env.prefix, "/")
        /\ env.prefix \o configs[installArchs[idx]].binary \in Names(entries))
       => /\ entries' = entries
          /\ Len(log') = Len(log) + 1
          /\ log'[Len(log')].op = "install"
          /\ log'[Len(log')].arg = installArchs[idx]
          /\ log'[Len(log')].err =
                Err("already registered", env.prefix \o configs[installArchs[idx]].binary)
          /\ idx' = idx + 1
          /\ pc' = pc]_vars

C4_Witness ==
    /\ pc = "install"
    /\ log # <<>>
    /\ log[Len(log)].op = "install"
    /\ log[Len(log)].err.kind = "already registered"
    /\ \E e \in entries : e.name = log[Len(log)].err.arg /\ e.status = sDisabled

\* C5: uninstall of a target that names no entry returns "not found", writes
\* to no file and leaves the snapshot as it was.
C5_NotFound ==
    [][(/\ pc = "uninstall" /\ idx <= Len(uninstallTargets)
        /\ \A e \in entries : ~NamedBy(e.name, uninstallTargets[idx]))
       => /\ log'[Len(log')].op = "uninstall"
          /\ log'[Len(log')].arg = uninstallTargets[idx]
          /\ log'[Len(log')].err = Err("not found", <<>>)
          /\ log'[Len(log')].data = NoName
          /\ entries' = entries
          /\ printStatus(fsState', entries') = printStatus(fsState, entries)]_vars

C5_Witness ==
    /\ pc = "uninstall"
    /\ log # <<>>
    /\ log[Len(log)].op = "uninstall"
    /\ log[Len(log)].err = Err("not found", <<>>)
    /\ entries # {}

\* C6: every target of the lists is attempted once, in list order, whatever
\* the earlier outcomes, and what a successful target did shows in the
\* snapshot of the run.
C6_BatchIsolation ==
    (pc = "done" /\ Statuses # <<>>)
    => /\ Args(Uninstalls) = parseUninstall("mounted", start.entries, toUninstall)
       /\ Args(Installs) = parseArch(toInstall)
       /\ \A i \in 1..Len(Installs) :
            Installs[i].err = NoErr =>
                LineName(Installs[i].data) \in Range(Statuses[1].data)
       /\ \A i \in 1..Len(Uninstalls) :
            (/\ Uninstalls[i].err = NoErr
             /\ \A j \in 1..Len(Installs) :
                    Installs[j].err = NoErr =>
                        LineName(Installs[j].data) # Uninstalls[i].data)
            => Uninstalls[i].data \notin Range(Statuses[1].data)

C6_Witness ==
    /\ pc = "done" /\ Statuses # <<>>
    /\ Len(Installs) = 2
    /\ Installs[1].err # NoErr
    /\ Installs[2].err = NoErr
    /\ LineName(Installs[2].data) \in Range(Statuses[1].data)

\* C7: a run that passes the mount check does its uninstalls in listed
\* order, then its installs in listed order, then one status read, and
\* changes no registration after the status read.
OpRank(op) ==
    CASE op \in {"version", "mount"} -> 0
      [] op = "uninstall" -> 1
      [] op = "install" -> 2
      [] op = "status" -> 3
      [] OTHER -> 4

IsPrefixOf(a, b) == Len(a) <= Len(b) /\ a = SubSeq(b, 1, Len(a))

C8_UnmountIffMounted ==
    /\ start.fs = "mounted" =>
            /\ fsState = "mounted"
            /\ OpsOf(log, "unmount") = <<>>
            /\ OpsOf(log, "mount") = <<>>
    /\ Len(OpsOf(log, "unmount")) <= 1
    /\ pc = "done" =>
            (OpsOf(log, "unmount") # <<>>
                <=> \E i \in 1..Len(log) : log[i].op = "mount" /\ log[i].data = "")

C8_Witness ==
    /\ pc = "done"
    /\ start.fs = "unmounted"
    /\ fsState = "unmounted"
    /\ log[1].op = "mount"
    /\ log[Len(log)].op = "unmount"

\* C9: when the status marker is absent and the mount call fails, the run
\* ends with an error of the system error and the mount point, after the one
\* mount attempt and before anything else is attempted.
C9_MountFailureIsFatal ==
    \A i \in 1..Len(log) :
        (log[i].op = "mount" /\ log[i].data # "")
        => /\ log = <<Ev("mount", sMount,
                         Err("cannot mount binfmt_misc filesystem at", <<sMount, log[i].data>>),
                         log[i].data)>>
           /\ log[i].data = (IF start.fs = "absent" THEN "ENOENT" ELSE "EPERM")
           /\ result = log[i].err
           /\ pc \in {"exit", "done"}
           /\ ~mountedByUs
           /\ entries = start.entries
           /\ fsState = start.fs

C9_Witness ==
    /\ pc = "done"
    /\ start.fs = "unmounted"
    /\ toUninstall # <<>> /\ toInstall # <<>>
    /\ Len(log) = 1
    /\ log[1].op = "mount" /\ log[1].data = "EPERM"

\* C10: with a path separator in the binary prefix, install reports the
\* configuration error and writes nothing to the register file; no entry's
\* name ever contains a path separator.
C10_PrefixRejected ==
    /\ \A e \in entries : ~ContainsRune(e.name, "/")
    /\ ContainsRune(env.prefix, "/") =>
            \A i \in 1..Len(Installs) :
                /\ Installs[i].data = NoLine
                /\ Installs[i].err # NoErr
                /\ Installs[i].arg \in DOMAIN configs =>
                        Installs[i].err =
                            Err("binary prefix must not contain path separator", <<>>)
    /\ (ContainsRune(env.prefix, "/") /\ pc = "install") =>
            entries = start.entries \ {e \in start.entries :
                \E i \in 1..Len(Uninstalls) : Uninstalls[i].data = e.name}

C10_Witness ==
    /\ pc = "done"
    /\ ContainsRune(env.prefix, "/")
    /\ \E i \in 1..Len(Installs) :
            /\ Installs[i].arg = sArm64
            /\ Installs[i].err.kind = "binary prefix must not contain path separator"

-----------------------------------------------------------------------------
(* The claims on the record, the names and the table *)

\* The records this run's installs wrote, and the architecture of each.
Written == SelectSeq(Installs, LAMBDA ev : ev.data # NoLine)

\* The registered name and the interpreter directory the environment asks for.
NameFor(a) == env.prefix \o configs[a].binary
DirFor == IF env.path = <<>> THEN sUsrBin ELSE sOptQemu

\* C11: with a valid configuration, install of an architecture of the table
\* writes one record, ":" name ":M:0:" magic ":" mask ":" interpreter ":"
\* flags, the offset being 0 and the flags CFP when QEMU_PRESERVE_ARGV0 is
\* set and non-empty, CF otherwise.
C11_RecordFormat ==
    /\ \A i \in 1..Len(Installs) :
            /\ Installs[i].arg \in DOMAIN configs
            /\ Installs[i].data =
                   Join(<< <<>>, NameFor(Installs[i].arg), <<"M">>, <<"0">>,
                           configs[Installs[i].arg].magic,
                           configs[Installs[i].arg].mask,
                           DirFor \o <<"/">> \o NameFor(Installs[i].arg),
                           IF env.preserve = <<>> THEN <<"C", "F">>
                           ELSE <<"C", "F", "P">> >>, ":")
    /\ Len(Installs) <= Len(parseArch(toInstall))
    /\ \A e \in entries :
            e.flags = (IF env.preserve = <<>> THEN <<"C", "F">> ELSE <<"C", "F", "P">>)

C11_Witness ==
    /\ pc = "done"
    /\ env.preserve # <<>>
    /\ Len(Written) = 2
    /\ Written[1].err = NoErr
    /\ Split(Written[1].data, ":")[8] = <<"C", "F", "P">>
    /\ Split(Written[1].data, ":")[4] = <<"0">>

\* C12: the registered name is prefix + emulator name and the interpreter is
\* the name in the directory of QEMU_BINARY_PATH, /usr/bin when that is
\* unset or empty; a successful install of amd64 without prefix registers
\* <directory>/qemu-x86_64 and the snapshot lists qemu-x86_64.
C12_NameAndPath ==
    \A i \in 1..Len(Installs) :
        Installs[i].err = NoErr =>
            /\ \E e \in entries :
                    /\ e.name = NameFor(Installs[i].arg)
                    /\ e.interpreter = DirFor \o <<"/">> \o NameFor(Installs[i].arg)
            /\ \A j \in 1..Len(Statuses) :
                    NameFor(Installs[i].arg) \in Range(Statuses[j].data)
            /\ (Installs[i].arg = sAmd64 /\ env.prefix = <<>>) =>
                    /\ \E e \in entries :
                            /\ e.name = sQemuDash \o sX86_64
                            /\ e.interpreter =
                                   DirFor \o <<"/">> \o sQemuDash \o sX86_64
                    /\ \A j \in 1..Len(Statuses) :
                            sQemuDash \o sX86_64 \in Range(Statuses[j].data)

C12_Witness ==
    /\ pc = "done"
    /\ env.prefix = <<>> /\ env.path # <<>>
    /\ Installs[1].arg = sAmd64 /\ Installs[1].err = NoErr
    /\ Statuses # <<>>
    /\ sQemuDash \o sX86_64 \in Range(Statuses[1].data)
    /\ \E e \in entries : e.interpreter = sOptQemu \o <<"/">> \o sQemuDash \o sX86_64

\* Bitwise and, and exclusive or, of two bytes.
RECURSIVE BitAnd(_, _)
BitAnd(a, b) ==
    IF a = 0 \/ b = 0 THEN 0
    ELSE (a % 2) * (b % 2) + 2 * BitAnd(a \div 2, b \div 2)
RECURSIVE BitXor(_, _)
BitXor(a, b) ==
    IF a = 0 /\ b = 0 THEN 0
    ELSE ((a + b) % 2) + 2 * BitXor(a \div 2, b \div 2)

\* No byte sequence matches both patterns: at some offset the two masks have
\* a common bit on which the magics differ.
Distinguished(magic1, mask1, magic2, mask2) ==
    \E i \in 1..Len(magic1) :
        /\ i <= Len(magic2)
        /\ BitAnd(BitAnd(mask1[i], mask2[i]), BitXor(magic1[i], magic2[i])) # 0

\* C13: the decoded magic and mask of every entry of the table have the same
\* length, and no two entries of the table, nor two registered entries, match
\* a common byte sequence.
TableLengthsEqual ==
    \A a \in DOMAIN configs :
        Len(Unescape(configs[a].magic)) = Len(Unescape(configs[a].mask))
\* The pairs of the table.
TablePairsDistinguished ==
    \A a, b \in DOMAIN configs :
        a # b => Distinguished(Unescape(configs[a].magic), Unescape(configs[a].mask),
                               Unescape(configs[b].magic), Unescape(configs[b].mask))
\* C13, with the entries the installs registered: no two of them match a
\* common byte sequence either.
C13_TableUnambiguous ==
    /\ TableLengthsEqual
    /\ TablePairsDistinguished
    /\ \A x, y \in entries :
            x # y => /\ Len(Unescape(x.magic)) = Len(Unescape(x.mask))
                     /\ Distinguished(Unescape(x.magic), Unescape(x.mask),
                                      Unescape(y.magic), Unescape(y.mask))

C13_Witness ==
    /\ pc = "done"
    /\ \E x, y \in entries :
            /\ x.name = sQemuDash \o <<"m", "i", "p", "s", "6", "4">>
            /\ y.name = sQemuDash \o <<"s", "3", "9", "0", "x">>
            /\ Len(Unescape(x.mask)) = Len(Unescape(y.magic))

-----------------------------------------------------------------------------
(* The claims on the status read and on uninstall *)

\* The content of an entry's file begins with "enabled".
BeginsEnabled(e) ==
    LET c == ReadFile(e)
    IN  Len(c) >= 7 /\ SubSeq(c, 1, 7) = <<"e", "n", "a", "b", "l", "e", "d">>

\* C14: the emulators list of a status read holds exactly the entries, other
\* than register and status, whose content begins with "enabled", each once;
\* an entry that is disabled is never listed.
C14_EnabledOnly ==
    \A j \in 1..Len(Statuses) :
        /\ Range(Statuses[j].data) = {e.name : e \in {x \in entries : BeginsEnabled(x)}}
        /\ Len(Statuses[j].data) = Cardinality(Range(Statuses[j].data))
        /\ sRegister \notin Range(Statuses[j].data)
        /\ sStatus \notin Range(Statuses[j].data)
        /\ \A e \in entries : e.status = sDisabled => e.name \notin Range(Statuses[j].data)

C14_Witness ==
    /\ pc = "done"
    /\ Len(Statuses) = 1
    /\ Range(Statuses[1].data) = {sWSLInterop, sBuildkit \o sQemuDash \o sAarch64}
    /\ \E e \in entries : e.status = sDisabled

Reserved == {sRegister, sStatus, sWSLInterop}

\* C18: whatever the target (a reserved name, or a name a glob expanded to),
\* uninstall writes to none of register, status and WSLInterop: the entry
\* WSLInterop stays as it was, and every entry that is gone was removed by a
\* write to its own file.
C18_ReservedUntouched ==
    /\ \A i \in 1..Len(Uninstalls) : Uninstalls[i].data \notin Reserved
    /\ \A e \in start.entries : e.name \in Reserved => e \in entries
    /\ \A e \in start.entries :
            e \notin entries =>
                \E i \in 1..Len(Uninstalls) :
                    Uninstalls[i].data = e.name /\ Uninstalls[i].err = NoErr

C18_Witness ==
    /\ pc = "done"
    /\ toUninstall = <<"*">>
    /\ WSLInterop \in entries
    /\ Args(Uninstalls) = <<sWSLInterop, sQemuDash \o sAarch64, sRegister, sStatus>>
    /\ \A i \in {1, 3, 4} : Uninstalls[i].err = Err("not found", <<>>)
    /\ Uninstalls[2].err = NoErr

\* The entries a target addresses, the reserved ones aside.
Addressed(t) == {n \in Names(entries) \ Reserved : NamedBy(n, t)}
FirstAddressed(t) ==
    CHOOSE n \in Addressed(t) : \A m \in Addressed(t) : m = n \/ StrLess(n, m)

C19_WitnessDenied ==
    /\ pc = "uninstall"
    /\ log # <<>>
    /\ log[Len(log)].op = "uninstall"
    /\ log[Len(log)].err = Err("write", "EACCES")
    /\ entries = start.entries

-----------------------------------------------------------------------------
(* The claims on the selector "all" *)

\* C15: with the selector "all", every architecture of the table the host
\* does not support is among the install targets, also when its emulator is
\* missing on the disk, and install reports on it.
C15_AllKeepsMissing ==
    (toInstall = sAll /\ pc = "status")
    => \A a \in DOMAIN configs \ SupportedArchs(start.entries) :
            /\ a \in Range(installArchs)
            /\ \E i \in 1..Len(Installs) : Installs[i].arg = a

-----------------------------------------------------------------------------
(* The claims on concurrent installs *)

\* C16: when two processes install the same architecture, not registered
\* before, at the same time, one install returns nil and the other "already
\* registered"; one entry of the name exists afterwards, and it holds the
\* record of the write that succeeded.
C16_OneWinner ==
    (procs[1].pc = "done" /\ procs[2].pc = "done")
    => \E w, l \in {1, 2} :
            /\ w # l
            /\ procs[w].err = NoErr
            /\ procs[l].err =
                   Err("already registered",
                       procs[l].env.prefix \o configs[procs[l].arch].binary)
            /\ Cardinality(entries) = 1
            /\ \A e \in entries :
                    /\ e.name = procs[w].env.prefix \o configs[procs[w].arch].binary
                    /\ e.status = sEnabled
                    /\ Split(procs[w].line, ":")[7] = e.interpreter
                    /\ Split(procs[w].line, ":")[8] = e.flags
                    /\ e.interpreter =
                           (IF procs[w].env.path = <<>> THEN sUsrBin ELSE sOptQemu)
                               \o <<"/">> \o e.name
                    /\ e.flags = (IF procs[w].env.preserve = <<>>
                                  THEN <<"C", "F">> ELSE <<"C", "F", "P">>)

C16_Witness ==
    /\ procs[1].pc = "done" /\ procs[2].pc = "done"
    /\ procs[1].err.kind = "already registered"
    /\ procs[2].err = NoErr
    /\ procs[1].env.path = <<>> /\ procs[2].env.path = sOptQemu
    /\ procs[1].line # procs[2].line
    /\ \E e \in entries : e.interpreter = Split(procs[2].line, ":")[7]

-----------------------------------------------------------------------------
(* The claims on repeated runs *)

OneEntryPerTarget(ents) ==
    \A t \in Range(parseUninstall("mounted", ents, toUninstall)) :
        Cardinality({e \in ents : NamedBy(e.name, t)}) <= 1

-----------------------------------------------------------------------------
(* The claims on the order of install's steps *)

PrefixError == Err("binary prefix must not contain path separator", <<>>)

\* C20 as claimed: install resolves the binary names before it opens the
\* register file: with an invalid prefix, install of an architecture of the
\* table reports the configuration error, also when the register file
\* cannot be opened.
C20_PrefixErrorFirst ==
    \A i \in 1..Len(Installs) :
        (Installs[i].arg \in DOMAIN configs /\ ContainsRune(env.prefix, "/"))
        => Installs[i].err = PrefixError

\* C20 as amended: install looks the architecture up, opens the register
\* file and then resolves the binary names: with an invalid prefix, install
\* of an architecture of the table reports the configuration error when the
\* register file opens, and the error of the open when it does not.
C20_OpenErrorFirst ==
    \A i \in 1..Len(Installs) :
        /\ Installs[i].arg \notin DOMAIN configs =>
                Installs[i].err = Err("unsupported architecture", Installs[i].arg)
        /\ (Installs[i].arg \in DOMAIN configs /\ ContainsRune(env.prefix, "/")) =>
                /\ Installs[i].data = NoLine
                /\ Installs[i].err =
                       (CASE fsState = "mounted:EACCES" ->
                                Err("Cannot open register", "EACCES")
                          [] fsState = "mounted:EPERM" ->
                                Err("EPERM opening register check permissions?", <<>>)
                          [] OTHER -> PrefixError)
        /\ (Installs[i].arg \in DOMAIN configs /\ ~ContainsRune(env.prefix, "/")) =>
                (Installs[i].err = NoErr <=> fsState = "mounted")

C20_Witness ==
    /\ pc = "done"
    /\ fsState = "mounted:EACCES"
    /\ env.prefix = sDotDot
    /\ Len(Installs) = 1
    /\ Installs[1].arg = sArm64
    /\ Installs[1].err = Err("Cannot open register", "EACCES")
    /\ entries = {}

-----------------------------------------------------------------------------
(* The claims on install's error classes *)

\* The errnos of a refused permission: EACCES ("permission denied") and
\* EPERM ("operation not permitted").
PermissionErrnos == {"EACCES", "EPERM"}

\* C21: whenever the open of the register file fails with a permission
\* error, install of an architecture of the table reports the
\* permission-denied error, not the generic failure of the open.
C21_PermissionClass ==
    \A i \in 1..Len(Installs) :
        (Installs[i].arg \in DOMAIN configs
            /\ OpenRegister(fsState) \in PermissionErrnos)
        => Installs[i].err = Err("EPERM opening register check permissions?", <<>>)

\* C22: install of a name the table does not have returns the "unsupported
\* architecture" error, whether or not the register file can be opened,
\* writes no record, leaves the entries as they are, and the loop goes on
\* to the next target.
C22_UnsupportedArch ==
    [][(/\ pc = "install"
        /\ idx <= Len(installArchs)
        /\ installArchs[idx] \notin DOMAIN configs
        /\ log' # log)
       => /\ log' = Append(log, Ev("install", installArchs[idx],
                                   Err("unsupported architecture", installArchs[idx]),
                                   NoLine))
          /\ entries' = entries
          /\ fsState' = fsState
          /\ pc' = "install"
          /\ idx' = idx + 1
          /\ installArchs' = installArchs]_vars

C22_Witness ==
    /\ pc = "done"
    /\ fsState = "mounted:EACCES"
    /\ Len(Installs) = 2
    /\ Installs[1].arg = sMips
    /\ Installs[1].err = Err("unsupported architecture", sMips)
    /\ Installs[2].arg = sArm64
    /\ Installs[2].err = Err("Cannot open register", "EACCES")
    /\ entries = start.entries

-----------------------------------------------------------------------------
(* The claims on the target lists *)

NoDuplicates(list) ==
    \A i, j \in 1..Len(list) : list[i] = list[j] => i = j

\* C23: for the install selector "all", the list of targets holds only
\* architectures of the table, each at most once, and none that the host
\* supports, by itself or by an enabled emulator, when the list is made.
\* (No uninstall precedes the list here: the entries are those of the start.)
C23_AllTargets ==
    (toInstall = sAll /\ pc \in {"install", "status", "exit", "done"})
    => /\ Range(installArchs) \subseteq DOMAIN configs
       /\ NoDuplicates(installArchs)
       /\ Range(installArchs) \cap SupportedArchs(start.entries) = {}

C23_Witness ==
    /\ pc = "done"
    /\ toInstall = sAll
    /\ env.prefix = <<>>
    /\ Range(installArchs) = {sArm64, sArm, sRiscv64}
    /\ Len(Installs) = 3
    /\ \A i \in 1..3 : Installs[i].err = NoErr
    /\ SupportedArchs(start.entries) = DOMAIN configs \ {sArm64, sArm, sRiscv64}

\* The comma-separated tokens of a selector: the one list of strings without
\* comma that joined with commas gives the selector.
IsTokenList(toks, in) ==
    /\ toks # <<>>
    /\ \A i \in 1..Len(toks) : ~ContainsRune(toks[i], ",")
    /\ Join(toks, ",") = in

\* C24: for an explicit install selector the list of targets has one element
\* per comma-separated token, in input order: the architecture of the token
\* when it parses as a platform specifier, else the token itself; duplicates
\* are kept, and for the empty selector the list is empty and no install is
\* attempted.
C24_ExplicitSelector ==
    (/\ toInstall # sAll
     /\ \/ pc \in {"install", "status"}
        \/ pc \in {"exit", "done"} /\ Statuses # <<>>)
    => LET toks == Split(toInstall, ",")
       IN  /\ IsTokenList(toks, toInstall)
           /\ IF toInstall = <<>>
              THEN installArchs = <<>> /\ Installs = <<>>
              ELSE /\ Len(installArchs) = Len(toks)
                   /\ \A i \in 1..Len(toks) :
                        installArchs[i] =
                            IF platformsParse(toks[i]).ok
                            THEN platformsParse(toks[i]).arch
                            ELSE toks[i]
           /\ pc = "done" => Args(Installs) = installArchs

C24_Witness ==
    /\ pc = "done"
    /\ toInstall = Join(<<sAarch64, sLinux \o <<"/">> \o sArm64>>, ",")
    /\ installArchs = <<sArm64, sArm64>>
    /\ Len(Installs) = 2
    /\ Installs[1].err = NoErr
    /\ Installs[2].err = Err("already registered", sQemuDash \o sAarch64)

\* The uninstall loop was entered: its targets have been computed.
UninstallEntered ==
    \/ pc \in {"uninstall", "install", "status"}
    \/ pc \in {"exit", "done"} /\ Statuses # <<>>

\* The names of the tokens of -uninstall after the translation of the
\* architectures.
UninstallNames ==
    LET toks == Split(toUninstall, ",")
    IN  [i \in 1..Len(toks) |-> uninstallName(toks[i])]

\* A file name: not empty, without path separator, neither "." nor "..".
IsFileName(v) ==
    v # <<>> /\ ~ContainsRune(v, "/") /\ v \notin {<<".">>, <<".", ".">>}

\* C25 as claimed: a token without wildcard characters expands to one
\* target, the token itself after the translation of the architecture,
\* whatever the mount point holds.
C25_PlainTokenIsTarget ==
    (/\ UninstallEntered
     /\ toUninstall # <<>>
     /\ \A i \in 1..Len(UninstallNames) : ~hasMeta(UninstallNames[i]))
    => uninstallTargets = UninstallNames

\* C25 as amended: a token without wildcard characters whose name is a file
\* name expands to one target, that name, whatever the mount point holds;
\* a selector yields more targets than tokens only when a token has a
\* wildcard character; and uninstall is called for each target.
C25_PlainNameIsTarget ==
    /\ (/\ UninstallEntered
        /\ toUninstall # <<>>
        /\ \A i \in 1..Len(UninstallNames) :
                ~hasMeta(UninstallNames[i]) /\ IsFileName(UninstallNames[i]))
       => uninstallTargets = UninstallNames
    /\ (UninstallEntered /\ toUninstall # <<>>
            /\ Len(uninstallTargets) # Len(UninstallNames))
       => \E i \in 1..Len(UninstallNames) : hasMeta(UninstallNames[i])
    /\ pc = "done" /\ Statuses # <<>> => Args(Uninstalls) = uninstallTargets

C25_Witness ==
    /\ pc = "done"
    /\ toUninstall = Join(<<sArm64, sQemuStar>>, ",")
    /\ Names(start.entries) = {sQemuDash \o sAarch64, sBuildkit \o sQemuDash \o sAarch64}
    /\ uninstallTargets = <<sAarch64, sQemuDash \o sAarch64>>
    /\ Len(Uninstalls) = 2
    /\ Uninstalls[1].data = sBuildkit \o sQemuDash \o sAarch64
    /\ Uninstalls[2].data = sQemuDash \o sAarch64
    /\ entries = {}

\* This run is "-uninstall a" or "-uninstall linux/a" after a run that was a
\* successful "-install a", and its uninstall loop is over.
UninstalledInstalled ==
    /\ prev # NoPrev
    /\ toUninstall \in {prev.arch, sLinux \o <<"/">> \o prev.arch}
    /\ pc = "uninstall" /\ idx > Len(uninstallTargets)

-----------------------------------------------------------------------------
(* The claims on the end of a run *)

Mounts   == OpsOf(log, "mount")
Unmounts == OpsOf(log, "unmount")

\* This process has mounted the filesystem in this run.
MountedHere == \E i \in 1..Len(Mounts) : Mounts[i].err = NoErr

\* C27: in a run in which this process mounted the filesystem, the unmount
\* is attempted once, as the last thing of the run and after the status
\* read, also when the status read fails, and whether or not the unmount
\* fails the run returns what the status read returned.
C27_UnmountOnceAtEnd ==
    /\ \A i \in 1..Len(log) :
            log[i].op = "unmount"
            => i = Len(log) /\ i > 1 /\ log[i - 1].op = "status" /\ MountedHere
    /\ (pc = "done" /\ MountedHere)
       => /\ Len(Unmounts) = 1
          /\ Len(Statuses) = 1
          /\ result = Statuses[1].err

C27_Witness ==
    /\ pc = "done"
    /\ MountedHere
    /\ Len(Statuses) = 1
    /\ Statuses[1].err # NoErr
    /\ Len(Unmounts) = 1
    /\ Unmounts[1].err = Err("unmount", "EBUSY")
    /\ result = Statuses[1].err

\* C28: a status snapshot writes to no file of the mount point and changes
\* no registration and no mount state, and snapshots taken one after the
\* other report the same emulators.
C28_SnapshotPure ==
    /\ \A i \in 1..Len(printStatusAccesses(fsState, entries)) :
            printStatusAccesses(fsState, entries)[i].op # "write"
    /\ Statuses # <<>> =>
            /\ entries = start.entries
            /\ fsState = start.fs
            /\ \A i \in 1..Len(Statuses) : Statuses[i] = Statuses[1]

C28_Witness ==
    /\ Len(Statuses) = MaxCalls
    /\ fsState = "mounted"
    /\ Statuses[1].data = <<sWSLInterop, sBuildkit \o sQemuDash \o sAarch64>>
    /\ Statuses[MaxCalls].data = Statuses[1].data
    /\ \E e \in entries : e.status = sDisabled

\* The names of the entries the installs of this run have registered.
InstalledNames ==
    {LineName(Installs[i].data) : i \in {j \in 1..Len(Installs) : Installs[j].err = NoErr}}

\* The unmount of this run ended the filesystem instance.
UnmountedLast ==
    \E i \in 1..Len(Unmounts) :
        Unmounts[i].err = NoErr /\ Unmounts[i].data = <<"l", "a", "s", "t">>

\* C29 as claimed: every entry a successful install of the run created is
\* registered after the run has ended, the run having mounted and unmounted
\* the filesystem or not, no other process having deregistered anything.
C29_InstalledPersists_AnyUnmount ==
    (pc = "done" /\ Statuses # <<>> /\ Statuses[1].err = NoErr)
    => InstalledNames \subseteq Names(entries)

\* C29 as amended: every entry a successful install of the run created is
\* registered after the run has ended when the filesystem was mounted before
\* the run, or the unmount of the run failed or left the filesystem instance
\* alive; an unmount that ends the instance removes the entries.
C29_InstalledPersists ==
    (pc = "done" /\ Statuses # <<>> /\ Statuses[1].err = NoErr)
    => /\ ~UnmountedLast => InstalledNames \subseteq Names(entries)
       /\ UnmountedLast => entries = {} /\ MountedHere

C29_Witness ==
    /\ pc = "done"
    /\ MountedHere
    /\ Len(Unmounts) = 1
    /\ Unmounts[1].err = NoErr
    /\ ~UnmountedLast
    /\ fsState = "unmounted"
    /\ InstalledNames = {sQemuDash \o sAarch64}
    /\ sQemuDash \o sAarch64 \in Names(entries)

-----------------------------------------------------------------------------
(* The claims on two invocations *)

MountUnavailable == Err("ENOENT opening register is it mounted?", <<>>)

\* This invocation has passed its mount check.
PastMountCheck ==
    \/ pc \in {"uninstall", "install", "status"}
    \/ pc \in {"exit", "done"} /\ Statuses # <<>>

\* The other invocation mounted the filesystem and has unmounted it.
OtherUnmounted == procs[1].pc = "done" /\ procs[1].deferred

\* C30 as claimed: no install of an invocation that has passed its mount
\* check fails with the mount-unavailable error, and its status read does
\* not fail, whatever the other invocation does.
C30_RegisterStaysAvailable ==
    PastMountCheck =>
        /\ \A i \in 1..Len(Installs) : Installs[i].err # MountUnavailable
        /\ \A i \in 1..Len(Statuses) : Statuses[i].err = NoErr

\* C30 as amended: an invocation that mounted the filesystem itself keeps
\* the register file available until it returns; one that found it mounted
\* loses it when the invocation that mounted it returns: its installs from
\* then on fail with the mount-unavailable error and register nothing, and
\* its status read does not fail but lists no emulator.
C30_RegisterWhileMounted ==
    PastMountCheck =>
        /\ mountedByUs =>
            /\ pc \in {"uninstall", "install", "status", "exit"} => fsState = "mounted"
            /\ \A i \in 1..Len(Installs) : Installs[i].err # MountUnavailable
        /\ (\E i \in 1..Len(Installs) : Installs[i].err = MountUnavailable)
            => /\ OtherUnmounted
               /\ ~mountedByUs
               /\ start.fs = "unmounted"
               /\ \A i \in 1..Len(Statuses) : Statuses[i].data = <<>>
        /\ \A i, j \in 1..Len(Installs) :
                (i < j /\ Installs[i].err = MountUnavailable)
                => Installs[j].err = MountUnavailable
        /\ \A i \in 1..Len(Statuses) : Statuses[i].err = NoErr

C30_Witness ==
    /\ pc = "done"
    /\ ~mountedByUs
    /\ OtherUnmounted
    /\ Len(Installs) = 2
    /\ Installs[1].err = NoErr
    /\ Installs[2].err = MountUnavailable
    /\ Statuses[1].err = NoErr
    /\ Statuses[1].data = <<>>
    /\ sQemuDash \o sAarch64 \in Names(entries)

=============================================================================
